---- MODULE Spec2Model ----
(***************************************************************************)
(* A model of the provider adapters of vango-go/vai:                       *)
(*   - package gemini (src/unnamed/part_000): buildRequest and the         *)
(*     translation functions it calls;                                     *)
(*   - package oai_resp (src/unnamed/part_001): translateTools and         *)
(*     translateToolChoice;                                                *)
(*   - package proxy (src/pkg/proxy/middleware.go): the authentication     *)
(*     middleware, the per-user rate limiter with its cleanup loop, and    *)
(*     Server.Shutdown.                                                    *)
(*                                                                         *)
(* Representation.  A Go string that is only compared is a TLA+ string; a  *)
(* text that the code concatenates is a sequence of one-character strings. *)
(* A map[string]any is a function whose domain is the set of its keys; a   *)
(* value of type any is a record [kind, val] so that the type assertion    *)
(* v.(string) can be decided.  A nil map reads like the empty map in Go,   *)
(* so both are the function with the empty domain.  A nil pointer is Nil.  *)
(*                                                                         *)
(* Go maps are references: the ToolUse case of translateContentBlocks      *)
(* deletes a key of the caller's map, and the Args of the part it built    *)
(* refer to that same map.  The caller's request is therefore state        *)
(* (messages), and the wire request is read after the deletion.            *)
(*                                                                         *)
(* Not modelled: the system instruction of the Gemini request, the         *)
(* sampling parameters and the output format of the generation config      *)
(* (the requests of the model set none), tool input schemas and per-tool   *)
(* config payloads.                                                        *)
(***************************************************************************)
EXTENDS Integers, Sequences, FiniteSets, TLC

VARIABLES
    messages,    \* req.Messages of the caller's request, as it is now
    tools,       \* req.Tools
    toolChoice,  \* req.ToolChoice (Nil or [type, name])
    extensions,  \* req.Extensions
    builds,      \* one record per buildRequest call: the request passed, the wire request returned
    respTools,   \* results returned by oai_resp translateTools
    respChoice,  \* results returned by oai_resp translateToolChoice
    model,       \* a model string passed to stripProviderPrefix
    stripped,    \* results returned by stripProviderPrefix
    body,        \* the body of the request handleMessages is called with, <<>> when none is
    engineCalls, \* the calls of s.engine.CreateMessage: the request and what it returned
    metrics,     \* the records s.metrics holds, in the order they were recorded
    written,     \* the response handleMessages wrote, <<>> before it has
    apiKeys,     \* config.APIKeys, the list NewAuthMiddleware was called with
    keys,        \* AuthMiddleware.keys
    authLog,     \* one record per request handled by Authenticate
    requests,    \* the requests to /v1/ and how far the handler chain has served each
    userLimit,   \* config.UserRequestsPerMinute of the rate limiter
    buckets,     \* RateLimiter.buckets: user id -> [tokens, limit, sinceRefill]
    sinceTick,   \* time since the ticker of cleanupLoop fired, in ticks of the clock
    tickPending, \* ticker.C of cleanupLoop holds a tick
    lastCheck,   \* the last checkUserLimit call: user, bucket before, bucket after, result
    globalLimit, \* config.GlobalRequestsPerMinute of the rate limiter
    globalCount, \* RateLimiter.globalCount
    untilReset,  \* time until RateLimiter.globalReset, in ticks; -1 once now is after it
    windowPasses, \* checkGlobalLimit calls that returned true since the last window reset
    lastGlobal,  \* the last checkGlobalLimit call: count before, whether it reset, result
    loop,        \* cleanupLoop: "none" (not started), "running", "returned"
    shutdown,    \* Server.shutdown (atomic.Bool)
    closes,      \* number of close(s.done) executed; the second one panics
    httpServer,  \* Server.httpServer: Nil, or the server Start has set
    httpShutdowns, \* number of s.httpServer.Shutdown(ctx) calls
    start,       \* position of the goroutine that calls Start, "none" when none does
    published,   \* the last write of s.httpServer happens before the reads of Shutdown
    pc,          \* position of each goroutine that calls Shutdown
    calls,       \* number of Shutdown calls begun
    returns      \* one record per Shutdown call that returned: caller, error, after the Swap

adapterVars == <<messages, tools, toolChoice, extensions, builds, respTools, respChoice>>

handlerVars == <<body, engineCalls, metrics, written>>

\* Model strings, and the handler that parses them.
modelVars == <<model, stripped, handlerVars>>

authVars == <<apiKeys, keys, authLog, requests>>

globalVars == <<globalLimit, globalCount, untilReset, windowPasses, lastGlobal>>

limiterVars == <<userLimit, buckets, sinceTick, tickPending, lastCheck, globalVars>>

serverVars ==
    <<loop, shutdown, closes, httpServer, httpShutdowns, start, published, pc, calls, returns>>

proxyVars == <<authVars, limiterVars, serverVars>>

vars == <<adapterVars, modelVars, proxyVars>>

-----------------------------------------------------------------------------
(* Bounds of the model *)

MaxMsgs == 3        \* messages in a name-lookup history
MaxBlocks == 3      \* content blocks in a name-lookup history (all messages together)
MaxSigMsgs == 2     \* messages in a signature history
MaxSigBlocks == 2   \* content blocks in a signature history (all messages together)
MaxMixMsgs == 3     \* messages in a mixed history
MaxMixBlocks == 3   \* content blocks in a mixed history (all messages together)
MaxMediaMsgs == 2   \* messages in a media history
MaxMediaBlocks == 2 \* content blocks in a media history (all messages together)
MaxTools == 3       \* tools in a request
MaxModelLen == 4    \* characters of a model string
MaxKeys == 2        \* entries of config.APIKeys
MaxAuthRequests == 2 \* requests handled by Authenticate
MaxTokens == 1      \* resp.Usage.InputTokens, resp.Usage.OutputTokens
MaxRequests == 2    \* requests to /v1/ served concurrently
MaxGlobalLimit == 3 \* config.GlobalRequestsPerMinute
MaxUserLimit == 2   \* config.UserRequestsPerMinute
TicksPerMinute == 2 \* ticks of the clock in a minute
MaxCallers == 3     \* goroutines that call Shutdown
MaxShutdownCalls == 4 \* Shutdown calls
MaxBuilds == 2      \* buildRequest calls on one request

-----------------------------------------------------------------------------
(* Canonical model: values *)

Nil == [nil |-> TRUE]

EmptyMap == [k \in {} |-> Nil]

Restrict(m, D) == [k \in D |-> m[k]]

\* Map m with key k set to value v.
WithKey(m, k, v) == [x \in DOMAIN m \cup {k} |-> IF x = k THEN v ELSE m[x]]

Roles == {"user", "assistant"}

IDs == {"a", "b"}

Names == {"get_weather", "get_time"}

StringVal(s) == [kind |-> "string", val |-> s]

NumberVal(s) == [kind |-> "number", val |-> s]

BoolVal(b) == [kind |-> "bool", val |-> b]

\* A value of type map[string]any held in an any.
MapVal(m) == [kind |-> "map", val |-> m]

TextBlock(t) == [type |-> "text", text |-> t]

ToolUseBlock(id, name, input) == [type |-> "tool_use", id |-> id, name |-> name, input |-> input]

ToolResultBlock(id, content) == [type |-> "tool_result", tool_use_id |-> id, content |-> content]

\* A media source.  Type "url": the URI is in url for an Image source (the code reads
\* Source.URL) and in data for an Audio, Video or Document source (the only field of those
\* sources the code reads); type "base64": the bytes are in data.
Source(type, mediaType, url, data) ==
    [type |-> type, media_type |-> mediaType, url |-> url, data |-> data]

\* ImageBlock, AudioBlock, VideoBlock, DocumentBlock: kind is "image", "audio", "video" or
\* "document".
MediaBlock(kind, source) == [type |-> kind, source |-> source]

Message(role, content) == [role |-> role, content |-> content]

\* msg.ContentBlocks()
ContentBlocks(msg) == msg.content

-----------------------------------------------------------------------------
(* package gemini: messages *)

SigKey == "__thought_signature"

\* sig, ok := b.Input["__thought_signature"].(string): ok
HasStringSig(input) == SigKey \in DOMAIN input /\ input[SigKey].kind = "string"

\* A mutant of StripSig: the deletion clears the whole map.
StripSig_Clear(input) == IF HasStringSig(input) THEN EmptyMap ELSE input

\* The caller's input map after the ToolUse case ran: delete(b.Input, "__thought_signature")
\* when the key holds a string.
StripSig(input) == IF HasStringSig(input) THEN Restrict(input, DOMAIN input \ {SigKey}) ELSE input

\* A mutant of WireArgs: Args is a copy taken before the deletion.
WireArgs_Copy(input) == input

\* Args: b.Input is the caller's map itself, so the args sent are the map after the deletion.
WireArgs(input) == StripSig(input)

\* part.ThoughtSignature ("" is the zero value)
ThoughtSignature(input) == IF HasStringSig(input) THEN input[SigKey].val ELSE ""

TextPart(t) == [kind |-> "text", text |-> t]

FunctionCallPart(name, args, sig) ==
    [kind |-> "function_call", function_call |-> [name |-> name, args |-> args],
     thought_signature |-> sig]

FunctionResponsePart(name, response) ==
    [kind |-> "function_response", function_response |-> [name |-> name, response |-> response]]

InlineDataPart(mimeType, data) ==
    [kind |-> "inline_data", inline_data |-> [mime_type |-> mimeType, data |-> data]]

FileDataPart(mimeType, uri) ==
    [kind |-> "file_data", file_data |-> [mime_type |-> mimeType, file_uri |-> uri]]

\* The URIs of the model that begin with "gs://".
GsURIs == {"gs://bucket/file"}

\* strings.HasPrefix(s, "gs://"), on the strings of the model
HasGsPrefix(s) == s \in GsURIs

\* The ImageBlock case of translateContentBlocks (both URL branches build the same part).
imagePart(src) ==
    IF src.type = "url"
    THEN FileDataPart(src.media_type, src.url)
    ELSE InlineDataPart(src.media_type, src.data)

\* The AudioBlock and the DocumentBlock case of translateContentBlocks.
inlinePart(src) == InlineDataPart(src.media_type, src.data)

\* The VideoBlock case of translateContentBlocks (uri is Source.Data on both paths).
videoPart(src) ==
    IF src.type = "url" \/ HasGsPrefix(src.data)
    THEN FileDataPart(src.media_type, src.data)
    ELSE InlineDataPart(src.media_type, src.data)

\* The switch of translateContentBlocks: the parts appended for one block.  A ToolResult block
\* yields no part.
partsOfBlock(b) ==
    CASE b.type = "text" -> <<TextPart(b.text)>>
      [] b.type = "image" -> <<imagePart(b.source)>>
      [] b.type = "audio" -> <<inlinePart(b.source)>>
      [] b.type = "video" -> <<videoPart(b.source)>>
      [] b.type = "document" -> <<inlinePart(b.source)>>
      [] b.type = "tool_use" ->
            <<FunctionCallPart(b.name, WireArgs(b.input), ThoughtSignature(b.input))>>
      [] OTHER -> <<>>

\* translateContentBlocks: the parts returned.
RECURSIVE translateContentBlocks(_)
translateContentBlocks(blocks) ==
    IF blocks = <<>> THEN <<>>
    ELSE partsOfBlock(Head(blocks)) \o translateContentBlocks(Tail(blocks))

\* translateContentBlocks: the caller's blocks after the call.
blocksAfterTranslate(blocks) ==
    [j \in 1..Len(blocks) |->
        IF blocks[j].type = "tool_use"
        THEN [blocks[j] EXCEPT !.input = StripSig(@)]
        ELSE blocks[j]]

\* hasToolResults of translateMessages
hasToolResults(blocks) == \E j \in 1..Len(blocks) : blocks[j].type = "tool_result"

Min(S) == CHOOSE x \in S : \A y \in S : x <= y

MatchingToolUse(blocks, toolUseID) ==
    {j \in 1..Len(blocks) : blocks[j].type = "tool_use" /\ blocks[j].id = toolUseID}

\* The loop of getToolNameFromID from index i down (messages are 1-based here).
RECURSIVE scanBack(_, _, _)
scanBack(i, toolUseID, msgs) ==
    IF i < 1 THEN toolUseID
    ELSE IF msgs[i].role # "assistant" THEN scanBack(i - 1, toolUseID, msgs)
    ELSE LET blocks == ContentBlocks(msgs[i])
             hit == MatchingToolUse(blocks, toolUseID)
         IN IF hit # {} THEN blocks[Min(hit)].name
            ELSE scanBack(i - 1, toolUseID, msgs)

\* A mutant of getToolNameFromID: no lookup, the fallback always.
getToolNameFromID_NoLookup(toolUseID, msgs) == toolUseID

\* A mutant of getToolNameFromID: the loop stops before the first message (i > 0 for i >= 0).
RECURSIVE scanBack_SkipFirst(_, _, _)
scanBack_SkipFirst(i, toolUseID, msgs) ==
    IF i < 2 THEN toolUseID
    ELSE IF msgs[i].role # "assistant" THEN scanBack_SkipFirst(i - 1, toolUseID, msgs)
    ELSE LET blocks == ContentBlocks(msgs[i])
             hit == MatchingToolUse(blocks, toolUseID)
         IN IF hit # {} THEN blocks[Min(hit)].name
            ELSE scanBack_SkipFirst(i - 1, toolUseID, msgs)

getToolNameFromID_SkipFirst(toolUseID, msgs) == scanBack_SkipFirst(Len(msgs), toolUseID, msgs)

getToolNameFromID(toolUseID, msgs) == scanBack(Len(msgs), toolUseID, msgs)

RECURSIVE concatText(_)
concatText(content) ==
    IF content = <<>> THEN <<>>
    ELSE (IF Head(content).type = "text" THEN Head(content).text ELSE <<>>)
         \o concatText(Tail(content))

\* A mutant of toolResultToMap: the text of the first block only, no concatenation.
toolResultToMap_FirstText(content) ==
    IF content # <<>> /\ Head(content).type = "text" /\ Len(Head(content).text) > 0
    THEN [result |-> Head(content).text]
    ELSE EmptyMap

toolResultToMap(content) ==
    LET text == concatText(content)
    IN IF Len(text) > 0 THEN [result |-> text] ELSE EmptyMap

\* The inner loop of translateMessages over a tool-result message.
RECURSIVE functionContents(_, _)
functionContents(blocks, msgs) ==
    IF blocks = <<>> THEN <<>>
    ELSE LET b == Head(blocks)
             c == IF b.type = "tool_result"
                  THEN << [role |-> "function",
                           parts |-> <<FunctionResponsePart(getToolNameFromID(b.tool_use_id, msgs),
                                                            toolResultToMap(b.content))>>] >>
                  ELSE <<>>
         IN c \o functionContents(Tail(blocks), msgs)

\* A mutant of contentsOfMessage: the role is not translated.
contentsOfMessage_KeepRole(i, msgs) ==
    LET blocks == ContentBlocks(msgs[i])
    IN IF hasToolResults(blocks)
       THEN functionContents(blocks, msgs)
       ELSE << [role |-> msgs[i].role, parts |-> translateContentBlocks(blocks)] >>

\* One iteration of the loop of translateMessages: the contents appended for msgs[i].
contentsOfMessage(i, msgs) ==
    LET blocks == ContentBlocks(msgs[i])
    IN IF hasToolResults(blocks)
       THEN functionContents(blocks, msgs)
       ELSE << [role |-> IF msgs[i].role = "assistant" THEN "model" ELSE msgs[i].role,
                parts |-> translateContentBlocks(blocks)] >>

\* The caller's message i after that iteration.
messageAfterTranslate(msg) ==
    IF hasToolResults(ContentBlocks(msg)) THEN msg
    ELSE [msg EXCEPT !.content = blocksAfterTranslate(@)]

RECURSIVE translateFrom(_, _)
translateFrom(i, msgs) ==
    IF i > Len(msgs) THEN <<>>
    ELSE contentsOfMessage(i, msgs) \o translateFrom(i + 1, msgs)

\* translateMessages: the contents returned.  The names and ids getToolNameFromID reads are
\* not touched by the deletions of earlier iterations.
translateMessages(msgs) == translateFrom(1, msgs)

\* translateMessages: the caller's messages after the call.
messagesAfterTranslate(msgs) == [i \in 1..Len(msgs) |-> messageAfterTranslate(msgs[i])]

-----------------------------------------------------------------------------
(* Canonical model: tools and tool choice *)

ToolTypeFunction == "function"

ToolTypeWebSearch == "web_search"

ToolTypeCodeExecution == "code_execution"

ToolTypeFileSearch == "file_search"

ToolTypeComputerUse == "computer_use"

ToolTypeTextEditor == "text_editor"

\* The literal tool type oai_resp translateTools also accepts.
ToolTypeImageGeneration == "image_generation"

\* A tool type no adapter has a case for.
ToolTypeOther == "custom"

Tool(type, name, description) == [type |-> type, name |-> name, description |-> description]

ToolChoice(type, name) == [type |-> type, name |-> name]

-----------------------------------------------------------------------------
(* package gemini: tools, tool choice, request *)

FunctionDecl(tool) == [name |-> tool.name, description |-> tool.description]

\* funcDecls after the loop of translateTools
RECURSIVE funcDeclsOf(_)
funcDeclsOf(ts) ==
    IF ts = <<>> THEN <<>>
    ELSE (IF Head(ts).type = ToolTypeFunction THEN <<FunctionDecl(Head(ts))>> ELSE <<>>)
         \o funcDeclsOf(Tail(ts))

\* result after the loop of translateTools
RECURSIVE nativeToolsOf(_)
nativeToolsOf(ts) ==
    IF ts = <<>> THEN <<>>
    ELSE (CASE Head(ts).type = ToolTypeWebSearch -> << [kind |-> "google_search"] >>
            [] Head(ts).type = ToolTypeCodeExecution -> << [kind |-> "code_execution"] >>
            [] OTHER -> <<>>)
         \o nativeToolsOf(Tail(ts))

\* A mutant of translateTools: one function_declarations entry per Function tool.
translateTools_Unbatched(ts) ==
    nativeToolsOf(ts)
    \o [k \in 1..Len(funcDeclsOf(ts)) |->
            [kind |-> "function_declarations", function_declarations |-> <<funcDeclsOf(ts)[k]>>]]

translateTools(ts) ==
    nativeToolsOf(ts)
    \o (IF Len(funcDeclsOf(ts)) > 0
        THEN << [kind |-> "function_declarations", function_declarations |-> funcDeclsOf(ts)] >>
        ELSE <<>>)

FunctionCallingConfig(mode, allowed) ==
    [function_calling_config |-> [mode |-> mode, allowed_function_names |-> allowed]]

\* A mutant of translateToolChoice: the tool case forces some tool and drops the name.
translateToolChoice_DropName(tc) ==
    CASE tc.type = "auto" -> FunctionCallingConfig("AUTO", <<>>)
      [] tc.type = "none" -> FunctionCallingConfig("NONE", <<>>)
      [] tc.type = "any" -> FunctionCallingConfig("ANY", <<>>)
      [] tc.type = "tool" -> FunctionCallingConfig("ANY", <<>>)
      [] OTHER -> FunctionCallingConfig("", <<>>)

translateToolChoice(tc) ==
    CASE tc.type = "auto" -> FunctionCallingConfig("AUTO", <<>>)
      [] tc.type = "none" -> FunctionCallingConfig("NONE", <<>>)
      [] tc.type = "any" -> FunctionCallingConfig("ANY", <<>>)
      [] tc.type = "tool" -> FunctionCallingConfig("ANY", <<tc.name>>)
      [] OTHER -> FunctionCallingConfig("", <<>>)

\* buildRequest: the wire request returned.
\* int(budget) of a float64 that is not negative: the fraction is cut off.  The number is
\* held as its digits before the point and its digits after the point.
IntOfFloat(f) == f.whole

\* The thinking config read from the map under "thinking": each key is read only when its
\* value has the type asserted (string, float64, bool).
thinkingConfigOf(thinking) ==
    [thinking_level |->
        IF "level" \in DOMAIN thinking /\ thinking["level"].kind = "string"
        THEN thinking["level"].val ELSE "",
     thinking_budget |->
        IF "budget" \in DOMAIN thinking /\ thinking["budget"].kind = "number"
        THEN IntOfFloat(thinking["budget"].val) ELSE Nil,
     include_thoughts |->
        IF "include_thoughts" \in DOMAIN thinking /\ thinking["include_thoughts"].kind = "bool"
        THEN thinking["include_thoughts"].val ELSE FALSE]

\* A mutant of thinkingConfigOf: the keys of the map that the adapter does not know are
\* sent along.
thinkingConfigOf_PassUnknown(thinking) ==
    [thinking_level |->
        IF "level" \in DOMAIN thinking /\ thinking["level"].kind = "string"
        THEN thinking["level"].val ELSE "",
     thinking_budget |->
        IF "budget" \in DOMAIN thinking /\ thinking["budget"].kind = "number"
        THEN IntOfFloat(thinking["budget"].val) ELSE Nil,
     include_thoughts |->
        IF "include_thoughts" \in DOMAIN thinking /\ thinking["include_thoughts"].kind = "bool"
        THEN thinking["include_thoughts"].val ELSE FALSE,
     extra |-> DOMAIN thinking \ {"level", "budget", "include_thoughts"}]

\* config.ThinkingConfig: set only when req.Extensions["gemini"] is a map whose "thinking"
\* is a map.
thinkingConfig_PassUnknown(ext) ==
    IF "gemini" \in DOMAIN ext /\ ext["gemini"].kind = "map"
    THEN LET g == ext["gemini"].val
         IN IF "thinking" \in DOMAIN g /\ g["thinking"].kind = "map"
            THEN thinkingConfigOf_PassUnknown(g["thinking"].val)
            ELSE Nil
    ELSE Nil

thinkingConfig(ext) ==
    IF "gemini" \in DOMAIN ext /\ ext["gemini"].kind = "map"
    THEN LET g == ext["gemini"].val
         IN IF "thinking" \in DOMAIN g /\ g["thinking"].kind = "map"
            THEN thinkingConfigOf(g["thinking"].val)
            ELSE Nil
    ELSE Nil

\* buildGenerationConfig: the config returned for a request without sampling parameters and
\* without output format.
buildGenerationConfig(ext) == [thinking_config |-> thinkingConfig(ext)]

buildRequest(msgs, ts, tc, ext) ==
    [contents |-> translateMessages(msgs),
     tools |-> IF Len(ts) > 0 THEN translateTools(ts) ELSE <<>>,
     tool_config |-> IF tc # Nil THEN translateToolChoice(tc) ELSE Nil,
     generation_config |-> buildGenerationConfig(ext)]

\* strings.Index(s, "/"), counted from 1: the position of the first "/", 0 when there is
\* none (Go: -1).
RECURSIVE IndexFrom(_, _)
IndexFrom(s, i) ==
    IF i > Len(s) THEN 0
    ELSE IF s[i] = "/" THEN i
    ELSE IndexFrom(s, i + 1)

\* strings.LastIndex(s, "/"), counted from 1.
RECURSIVE LastIndexFrom(_, _)
LastIndexFrom(s, i) ==
    IF i < 1 THEN 0
    ELSE IF s[i] = "/" THEN i
    ELSE LastIndexFrom(s, i - 1)

\* A mutant of stripProviderPrefix: the string is cut at the last "/".
stripProviderPrefix_Last(s) ==
    LET idx == LastIndexFrom(s, Len(s))
    IN IF idx # 0 THEN SubSeq(s, idx + 1, Len(s)) ELSE s

stripProviderPrefix(s) ==
    LET idx == IndexFrom(s, 1)
    IN IF idx # 0 THEN SubSeq(s, idx + 1, Len(s)) ELSE s

-----------------------------------------------------------------------------
(* package oai_resp: tools, tool choice *)

\* The body of the loop of oai_resp translateTools: the entries appended for one tool.
responsesToolOf(tool) ==
    CASE tool.type = ToolTypeFunction ->
            << [type |-> "function", name |-> tool.name, description |-> tool.description] >>
      [] tool.type = ToolTypeWebSearch -> << [type |-> "web_search"] >>
      [] tool.type = ToolTypeCodeExecution -> << [type |-> "code_interpreter"] >>
      [] tool.type = ToolTypeFileSearch -> << [type |-> "file_search"] >>
      [] tool.type = ToolTypeComputerUse ->
            << [type |-> "computer_use_preview", environment |-> "browser"] >>
      [] tool.type = ToolTypeImageGeneration -> << [type |-> "image_generation"] >>
      [] OTHER -> <<>>

\* A mutant of oai_resp_translateTools: the TextEditor case appends an entry instead of continuing.
RECURSIVE keepEditorTools(_)
keepEditorTools(ts) ==
    IF ts = <<>> THEN <<>>
    ELSE (IF Head(ts).type = ToolTypeTextEditor THEN << [type |-> "text_editor"] >>
          ELSE responsesToolOf(Head(ts)))
         \o keepEditorTools(Tail(ts))

oai_resp_translateTools_KeepEditor(ts) == keepEditorTools(ts)

\* A mutant of oai_resp_translateTools: each entry is put in front of the result.
RECURSIVE prependTools(_)
prependTools(ts) ==
    IF ts = <<>> THEN <<>>
    ELSE prependTools(Tail(ts)) \o responsesToolOf(Head(ts))

oai_resp_translateTools_Prepend(ts) == prependTools(ts)

RECURSIVE appendTools(_)
appendTools(ts) ==
    IF ts = <<>> THEN <<>>
    ELSE responsesToolOf(Head(ts)) \o appendTools(Tail(ts))

oai_resp_translateTools(ts) == appendTools(ts)

WireString(s) == [str |-> s]

\* A mutant of oai_resp_translateToolChoice: any is sent as "auto".
oai_resp_translateToolChoice_AnyAuto(tc) ==
    IF tc = Nil THEN Nil
    ELSE CASE tc.type = "auto" -> WireString("auto")
           [] tc.type = "none" -> WireString("none")
           [] tc.type = "any" -> WireString("auto")
           [] tc.type = "tool" -> [type |-> "function", name |-> tc.name]
           [] OTHER -> WireString("auto")

oai_resp_translateToolChoice(tc) ==
    IF tc = Nil THEN Nil
    ELSE CASE tc.type = "auto" -> WireString("auto")
           [] tc.type = "none" -> WireString("none")
           [] tc.type = "any" -> WireString("required")
           [] tc.type = "tool" -> [type |-> "function", name |-> tc.name]
           [] OTHER -> WireString("auto")

-----------------------------------------------------------------------------
(* package proxy: authentication *)

APIKeyConfig(key, userID, name) == [key |-> key, user_id |-> userID, name |-> name]

\* The value of a header: the Go string prefix + rest.  A header that is not sent reads "".
HeaderValue(prefix, rest) == [prefix |-> prefix, rest |-> rest]

\* The headers of a request that Authenticate reads.
Request(authorization, xAPIKey) == [authorization |-> authorization, x_api_key |-> xAPIKey]

\* NewAuthMiddleware: keyMap[k.Key] = k for the entries in order, a later entry replaces an
\* earlier one with the same key.
RECURSIVE NewAuthMiddleware(_)
NewAuthMiddleware(list) ==
    IF list = <<>> THEN EmptyMap
    ELSE LET k == list[Len(list)]
         IN WithKey(NewAuthMiddleware(SubSeq(list, 1, Len(list) - 1)), k.key, k)

\* A mutant of extractAPIKey: an empty Bearer token falls through to X-API-Key.
extractAPIKey_FallThrough(r) ==
    IF r.authorization.prefix = "Bearer " /\ r.authorization.rest # ""
    THEN r.authorization.rest
    ELSE r.x_api_key

\* extractAPIKey: the Bearer token when Authorization begins with "Bearer ", else the
\* X-API-Key header, else "".
extractAPIKey(r) ==
    IF r.authorization.prefix = "Bearer "
    THEN r.authorization.rest
    ELSE IF r.x_api_key # "" THEN r.x_api_key
    ELSE ""

\* AuthMiddleware.writeError
ErrorResponse(status, errType, message) ==
    [status |-> status, type |-> errType, message |-> message]

\* The handler of Authenticate: the response it writes (Nil when it writes none), whether
\* it calls next, and the user id and key name of the context it passes on.
authenticate(ks, r) ==
    LET key == extractAPIKey(r)
    IN IF key = ""
       THEN [request |-> r, next |-> FALSE, user_id |-> "", api_key_name |-> "",
             response |-> ErrorResponse(401, "authentication_error", "Missing API key")]
       ELSE IF key \notin DOMAIN ks
       THEN [request |-> r, next |-> FALSE, user_id |-> "", api_key_name |-> "",
             response |-> ErrorResponse(401, "authentication_error", "Invalid API key")]
       ELSE [request |-> r, next |-> TRUE, user_id |-> ks[key].user_id,
             api_key_name |-> ks[key].name, response |-> Nil]

-----------------------------------------------------------------------------
(* package proxy: rate limiter *)

\* The clock of the model counts ticks.  Of the time since the last refill of a bucket
\* (now.Sub(bucket.lastRefill)) the code reads two things: the tokens to add, and whether
\* lastRefill is before the cutoff of Cleanup.  Both are the same for every time beyond the
\* cutoff, so the time is counted up to StaleTicks only.

\* Cleanup: cutoff := time.Now().Add(-5 * time.Minute)
CutoffMinutes == 5

\* cleanupLoop: time.NewTicker(time.Minute)
TickerMinutes == 1

CutoffTicks == CutoffMinutes * TicksPerMinute

TickerTicks == TickerMinutes * TicksPerMinute

\* The time from which bucket.lastRefill.Before(cutoff) holds.
StaleTicks == CutoffTicks + 1

tokenBucket(tokens, sinceRefill, limit) ==
    [tokens |-> tokens, sinceRefill |-> sinceRefill, limit |-> limit]

\* int(elapsed.Minutes() * float64(bucket.limit))
tokensToAdd(b) == (b.sinceRefill * b.limit) \div TicksPerMinute

\* A mutant of refill: the tokens are not capped at the limit.
refill_NoCap(b) ==
    IF tokensToAdd(b) > 0
    THEN tokenBucket(b.tokens + tokensToAdd(b), 0, b.limit)
    ELSE b

\* checkUserLimit: the refill of the bucket.
refill(b) ==
    IF tokensToAdd(b) > 0
    THEN tokenBucket(Min({b.tokens + tokensToAdd(b), b.limit}), 0, b.limit)
    ELSE b

\* checkUserLimit(userID): the bucket of the user after the call, and the result.
checkUserLimit(bs, u, limit) ==
    LET bucket == IF u \in DOMAIN bs THEN bs[u] ELSE tokenBucket(limit, 0, limit)
        b == refill(bucket)
    IN IF b.tokens <= 0
       THEN [bucket |-> b, ok |-> FALSE]
       ELSE [bucket |-> [b EXCEPT !.tokens = @ - 1], ok |-> TRUE]

\* Cleanup: the buckets that stay.
Cleanup(bs) ==
    Restrict(bs, {u \in DOMAIN bs :
                     ~(bs[u].sinceRefill > CutoffTicks /\ bs[u].tokens >= bs[u].limit)})

\* A mutant of checkGlobalLimit: the request passes while the count is at the limit.
checkGlobalLimit_AtLimit(count, until, limit) ==
    LET reset == until < 0
        c == IF reset THEN 0 ELSE count
        r == IF reset THEN TicksPerMinute ELSE until
    IN IF c > limit
       THEN [count |-> c, untilReset |-> r, reset |-> reset, ok |-> FALSE]
       ELSE [count |-> c + 1, untilReset |-> r, reset |-> reset, ok |-> TRUE]

\* checkGlobalLimit, under globalMu: the count and the reset time after the call, whether
\* the call began a new window, and the result.  now.After(globalReset) reads until < 0.
checkGlobalLimit(count, until, limit) ==
    LET reset == until < 0
        c == IF reset THEN 0 ELSE count
        r == IF reset THEN TicksPerMinute ELSE until
    IN IF c >= limit
       THEN [count |-> c, untilReset |-> r, reset |-> reset, ok |-> FALSE]
       ELSE [count |-> c + 1, untilReset |-> r, reset |-> reset, ok |-> TRUE]

\* writeRateLimitError
RateLimitResponse ==
    ErrorResponse(429, "rate_limit_error",
                  "Rate limit exceeded. Please retry after the specified time.")

-----------------------------------------------------------------------------
(* package proxy: POST /v1/messages *)

\* The providers core.ParseModelString recognises.
KnownProviders == {<<"g">>}

\* core.ParseModelString: the string is split at the first "/"; the call fails when there
\* is none or when the provider segment is not recognised.
ParseModelString(s) ==
    LET idx == IndexFrom(s, 1)
        provider == SubSeq(s, 1, idx - 1)
    IN IF idx = 0
       THEN [provider |-> <<>>, model |-> <<>>, err |-> [error |-> "invalid model string"]]
       ELSE IF provider \notin KnownProviders
       THEN [provider |-> <<>>, model |-> <<>>, err |-> [error |-> "unknown provider"]]
       ELSE [provider |-> provider, model |-> SubSeq(s, idx + 1, Len(s)), err |-> Nil]

\* json.NewDecoder(r.Body).Decode(&req): the request, or the error of a body that is not
\* the JSON of a MessageRequest.
Decode(b) ==
    IF b.json THEN [req |-> [model |-> b.model], err |-> Nil]
    ELSE [req |-> Nil, err |-> [error |-> "invalid character"]]

\* Server.writeError
writeError(status, errType, message) ==
    [status |-> status, type |-> errType, message |-> message, headers |-> {"Content-Type"}]

\* Metrics.RecordError, RecordRequest, RecordTokens: the record each adds.
RecordError(provider, errType) == [metric |-> "error", provider |-> provider, type |-> errType]

RecordRequest(provider, mdl, path, status) ==
    [metric |-> "request", provider |-> provider, model |-> mdl, path |-> path,
     status |-> status]

RecordTokens(provider, mdl, input, output) ==
    [metric |-> "tokens", provider |-> provider, model |-> mdl, input |-> input,
     output |-> output]

\* The headers handleMessages sets before it encodes the response of the engine.
SuccessHeaders ==
    {"Content-Type", "X-Request-ID", "X-Model", "X-Input-Tokens", "X-Output-Tokens",
     "X-Duration-Ms"}

\* A mutant of handleMessages: the engine is called before the model string is looked at.
handleMessages_EngineFirst(b, result) ==
    LET decoded == Decode(b)
        parsed == ParseModelString(decoded.req.model)
        call == <<[req |-> decoded.req, result |-> result]>>
    IN IF decoded.err # Nil
       THEN [calls |-> <<>>, metrics |-> <<>>,
             response |-> writeError(400, "invalid_request_error", "Invalid JSON")]
       ELSE IF result.err # Nil
       THEN [calls |-> call,
             metrics |-> <<RecordError(parsed.provider, "request_error")>>,
             response |-> writeError(500, "api_error", result.err.error)]
       ELSE IF parsed.err # Nil
       THEN [calls |-> call, metrics |-> <<>>,
             response |-> writeError(400, "invalid_request_error", parsed.err.error)]
       ELSE [calls |-> call,
             metrics |-> <<RecordRequest(parsed.provider, parsed.model, "/v1/messages",
                                         "success")>>,
             response |-> [status |-> 200, type |-> "message", message |-> "",
                           headers |-> SuccessHeaders]]

\* handleMessages for the body b when s.engine.CreateMessage, if it is called, returns
\* result: the calls of the engine, the metrics recorded and the response written.
handleMessages(b, result) ==
    LET decoded == Decode(b)
        parsed == ParseModelString(decoded.req.model)
        call == <<[req |-> decoded.req, result |-> result]>>
        usage == result.usage
    IN IF decoded.err # Nil
       THEN [calls |-> <<>>, metrics |-> <<>>,
             response |-> writeError(400, "invalid_request_error", "Invalid JSON")]
       ELSE IF parsed.err # Nil
       THEN [calls |-> <<>>, metrics |-> <<>>,
             response |-> writeError(400, "invalid_request_error", parsed.err.error)]
       ELSE IF result.err # Nil
       THEN [calls |-> call,
             metrics |-> <<RecordError(parsed.provider, "request_error")>>,
             response |-> writeError(500, "api_error", result.err.error)]
       ELSE [calls |-> call,
             metrics |-> <<RecordRequest(parsed.provider, parsed.model, "/v1/messages",
                                         "success")>>
                         \o (IF usage.input_tokens > 0 \/ usage.output_tokens > 0
                             THEN <<RecordTokens(parsed.provider, parsed.model,
                                                 usage.input_tokens, usage.output_tokens)>>
                             ELSE <<>>),
             response |-> [status |-> 200, type |-> "message", message |-> "",
                           headers |-> SuccessHeaders]]

-----------------------------------------------------------------------------
(* package proxy: the handler chain of /v1/ *)

\* A handler is the sequence of the handlers a request passes, the outermost first.
\* m(next): the handler of middleware m around the handler next.
Wrap(m, next) == <<m>> \o next

\* setupRoutes: the handler withMiddleware is given, the switch over method and path.
apiHandler == <<"apiHandler">>

\* A mutant of withMiddleware: the rate limiter is applied around authentication.
withMiddleware_LimitFirst(handler) ==
    LET h1 == Wrap("Recover", handler)
        h2 == Wrap("Authenticate", h1)
        h3 == Wrap("RateLimit", h2)
        h4 == Wrap("Handle", h3)
        h5 == Wrap("Log", h4)
    IN h5

\* withMiddleware: handler = s.recovery.Recover(handler), and so on.
withMiddleware(handler) ==
    LET h1 == Wrap("Recover", handler)
        h2 == Wrap("RateLimit", h1)
        h3 == Wrap("Authenticate", h2)
        h4 == Wrap("Handle", h3)
        h5 == Wrap("Log", h4)
    IN h5

\* r.RemoteAddr
RemoteAddr == "addr"

\* A response that carries a status only.
StatusResponse(status) == [status |-> status, type |-> "", message |-> ""]

\* A request no handler has served yet.  state: "none" (not arrived), "global" (in
\* RateLimit, before checkGlobalLimit), "user" (before checkUserLimit), "done" (the chain
\* has returned).  trace: the handlers entered.  response: what a middleware wrote, Nil
\* when none did.  handled: the API handler ran.  The counts and buckets are the ones
\* before and after the calls of this request to checkGlobalLimit and checkUserLimit.
NewRequest ==
    [state |-> "none", method |-> "", headers |-> Request(HeaderValue("", ""), ""),
     request_id |-> "", user_id |-> "", limit_user |-> "", pos |-> 0, trace |-> <<>>,
     response |-> Nil, handled |-> FALSE,
     globalChecked |-> FALSE, globalBefore |-> 0, globalAfter |-> 0,
     userChecked |-> FALSE, bucketsBefore |-> EmptyMap, bucketsAfter |-> EmptyMap]

\* The request req served by handler chain[pos] and the handlers it calls, up to the call
\* of checkGlobalLimit or to the return of the chain.
RECURSIVE serveFrom(_, _, _, _)
serveFrom(chain, pos, ks, req) ==
    LET name == chain[pos]
        entered == [req EXCEPT !.trace = Append(@, name), !.pos = pos]
    IN CASE name = "Log" ->
              serveFrom(chain, pos + 1, ks, [entered EXCEPT !.request_id = "req_1"])
         [] name = "Handle" ->
              IF req.method = "OPTIONS"
              THEN [entered EXCEPT !.state = "done", !.response = StatusResponse(204)]
              ELSE serveFrom(chain, pos + 1, ks, entered)
         [] name = "Authenticate" ->
              LET a == authenticate(ks, req.headers)
              IN IF a.next
                 THEN serveFrom(chain, pos + 1, ks, [entered EXCEPT !.user_id = a.user_id])
                 ELSE [entered EXCEPT !.state = "done", !.response = a.response]
         [] name = "RateLimit" ->
              [entered EXCEPT !.state = "global",
                              !.limit_user = IF req.user_id = "" THEN RemoteAddr
                                             ELSE req.user_id]
         [] name = "Recover" ->
              serveFrom(chain, pos + 1, ks, entered)
         [] name = "apiHandler" ->
              [entered EXCEPT !.state = "done", !.handled = TRUE]

-----------------------------------------------------------------------------
(* Requests the caller can pass *)

RECURSIVE SumSeq(_)
SumSeq(sh) == IF sh = <<>> THEN 0 ELSE Head(sh) + SumSeq(Tail(sh))

\* The numbers of blocks of the messages of a history: at most maxMsgs messages, each with a
\* block, at most maxBlocks blocks together.
HistoryShapes(maxMsgs, maxBlocks) ==
    {sh \in UNION {[1..m -> 1..maxBlocks] : m \in 0..maxMsgs} : SumSeq(sh) <= maxBlocks}

\* The history of shape sh whose messages have the roles rs and whose blocks are, in
\* conversation order, bs.
AssembleHistory(sh, rs, bs) ==
    [i \in 1..Len(sh) |->
        Message(rs[i], SubSeq(bs, SumSeq(SubSeq(sh, 1, i - 1)) + 1, SumSeq(SubSeq(sh, 1, i))))]

\* messages is a history of blocks of B within the bounds.
MessagesIn(B, maxMsgs, maxBlocks) ==
    \E sh \in HistoryShapes(maxMsgs, maxBlocks) :
        \E rs \in [1..Len(sh) -> Roles] :
            \E bs \in [1..SumSeq(sh) -> B] :
                messages = AssembleHistory(sh, rs, bs)

ResultText == <<"o", "k">>

\* Blocks of the name-lookup histories: ids and names vary, input maps are empty.
LookupBlocks ==
    {ToolUseBlock(id, n, EmptyMap) : id \in IDs, n \in Names}
    \cup {ToolResultBlock(id, <<TextBlock(ResultText)>>) : id \in IDs}
    \cup {TextBlock(<<"h", "i">>)}

\* Input maps of a ToolUse block: the reserved key absent, a string or not a string; another key
\* absent or present.
InputMaps ==
    {m \in UNION {[D -> {StringVal("sigA"), NumberVal("7"), StringVal("Paris")}] :
                      D \in SUBSET {SigKey, "city"}} :
        /\ SigKey \in DOMAIN m => m[SigKey] \in {StringVal("sigA"), NumberVal("7")}
        /\ "city" \in DOMAIN m => m["city"] = StringVal("Paris")}

\* Blocks of the signature histories: input maps vary, ids and names are fixed.
SigBlocks ==
    {ToolUseBlock("a", "get_weather", m) : m \in InputMaps}
    \cup {ToolResultBlock("a", <<TextBlock(ResultText)>>), TextBlock(<<"h", "i">>)}

InlineImage == MediaBlock("image", Source("base64", "image/png", "", "QUJD"))

\* Contents of a ToolResult block: no text, one text, texts around a block that is not a text.
ResultContents ==
    {<<>>,
     <<TextBlock(<<"o", "k">>)>>,
     <<TextBlock(<<"o">>), TextBlock(<<"k">>)>>,
     <<TextBlock(<<"k">>), InlineImage, TextBlock(<<"o">>)>>,
     <<InlineImage>>}

\* Blocks of the mixed histories: a block of each translation path, ToolResult contents vary.
MixedBlocks ==
    {TextBlock(<<"h", "i">>), ToolUseBlock("a", "get_weather", EmptyMap), InlineImage}
    \cup {ToolResultBlock("a", c) : c \in ResultContents}

URIs == GsURIs \cup {"https://host/file"}

\* The sources of a media block of the given kind: a URI (gs:// or HTTP) or inline data.
SourcesOf(kind) ==
    {Source("url", "media/type", IF kind = "image" THEN u ELSE "", IF kind = "image" THEN "" ELSE u) :
         u \in URIs}
    \cup {Source("base64", "media/type", "", "QUJD")}

\* Blocks of the media histories: kinds and sources vary.
MediaBlocks ==
    UNION {{MediaBlock(kind, src) : src \in SourcesOf(kind)} :
               kind \in {"image", "audio", "video", "document"}}

\* A float64: its digits before and after the point.
Float(whole, frac) == [whole |-> whole, frac |-> frac]

\* Values of every type the adapter asserts, and of a type it asserts for another key.
ThinkingValues ==
    {StringVal("high"), [kind |-> "number", val |-> Float(1024, 5)], BoolVal(TRUE)}

ThinkingKeys == {"level", "budget", "include_thoughts", "verbosity"}

\* The maps under "thinking": known keys and a key the adapter does not know, each absent or
\* with a value of any of the types.
ThinkingMaps == UNION {[D -> ThinkingValues] : D \in SUBSET ThinkingKeys}

\* The maps under "gemini": with or without "thinking" (a map, or a value that is not a
\* map), with or without a key the adapter does not know.
GeminiMaps ==
    LET thinkings == {MapVal(t) : t \in ThinkingMaps} \cup {StringVal("on")}
        base == {EmptyMap} \cup {WithKey(EmptyMap, "thinking", t) : t \in thinkings}
    IN base \cup {WithKey(g, "safety", StringVal("off")) : g \in base}

\* The extension bags: with or without "gemini" (a map, or a value that is not a map), with
\* or without an entry of another provider.
ExtensionBags ==
    LET geminis == {MapVal(g) : g \in GeminiMaps} \cup {StringVal("on")}
        base == {EmptyMap} \cup {WithKey(EmptyMap, "gemini", g) : g \in geminis}
    IN base \cup {WithKey(e, "openai", MapVal(WithKey(EmptyMap, "reasoning", StringVal("high")))) :
                      e \in base}

ModelChars == {"g", "/", "m"}

ModelStrings(maxLen) == UNION {[1..n -> ModelChars] : n \in 0..maxLen}

\* Bodies of POST /v1/messages: one that is not JSON, and the requests with a model string.
Bodies(maxLen) ==
    {[json |-> FALSE, model |-> <<>>]}
    \cup {[json |-> TRUE, model |-> m] : m \in ModelStrings(maxLen)}

\* What s.engine.CreateMessage returns: an error, or a response with its usage.
EngineResults ==
    {[err |-> [error |-> "provider error"], usage |-> [input_tokens |-> 0, output_tokens |-> 0]]}
    \cup {[err |-> Nil, usage |-> [input_tokens |-> i, output_tokens |-> o]] :
              i \in 0..MaxTokens, o \in 0..MaxTokens}

\* Key strings: the empty string, two keys, a string that is no key.
KeyStrings == {"", "k1", "k2", "zz"}

\* Entries of config.APIKeys: two entries share the key "k1", one has the empty key.
KeyConfigs ==
    {APIKeyConfig("k1", "u1", "first"), APIKeyConfig("k1", "u2", "second"),
     APIKeyConfig("k2", "u2", "other"), APIKeyConfig("", "u0", "blank")}

KeyLists(maxKeys) == UNION {[1..n -> KeyConfigs] : n \in 0..maxKeys}

\* Authorization headers: absent, a Bearer token (empty or not), another scheme.
AuthorizationHeaders ==
    {HeaderValue("", "")}
    \cup {HeaderValue("Bearer ", k) : k \in {"", "k1", "zz"}}
    \cup {HeaderValue("Basic ", "k1")}

Requests == {Request(a, x) : a \in AuthorizationHeaders, x \in KeyStrings}

Users == {"u1", "u2"}

\* The keys of the server whose handler chain is served.
PipelineKeys == <<APIKeyConfig("k1", "u1", "first"), APIKeyConfig("k2", "u2", "other")>>

\* Methods of the requests to /v1/.
Methods == {"POST", "OPTIONS"}

\* Headers of the requests to /v1/: no key, a configured key, an unknown key.
PipelineHeaders == {Request(HeaderValue("", ""), k) : k \in KeyStrings}

ToolVariants ==
    {Tool(ToolTypeFunction, n, d) : n \in Names, d \in {"d1", "d2"}}
    \cup {Tool(t, "", "") : t \in {ToolTypeWebSearch, ToolTypeCodeExecution, ToolTypeFileSearch,
                                   ToolTypeComputerUse, ToolTypeTextEditor,
                                   ToolTypeImageGeneration, ToolTypeOther}}

ToolLists(maxTools) == UNION {[1..n -> ToolVariants] : n \in 0..maxTools}

CanonicalChoices ==
    {ToolChoice(t, "") : t \in {"auto", "none", "any"}} \cup {ToolChoice("tool", n) : n \in Names}

ToolChoices == {Nil, ToolChoice("other", "")} \cup CanonicalChoices

-----------------------------------------------------------------------------
(* Operations *)

\* Provider.buildRequest(req) of package gemini.
BuildRequest ==
    /\ Len(builds) < MaxBuilds
    /\ builds' = Append(builds, [before |-> messages,
                                 wire |-> buildRequest(messages, tools, toolChoice, extensions)])
    /\ messages' = messagesAfterTranslate(messages)
    /\ UNCHANGED <<tools, toolChoice, extensions, respTools, respChoice, modelVars, proxyVars>>

\* Provider.buildRequest(req) on a request that was not translated before.
FirstBuildRequest == builds = <<>> /\ BuildRequest

\* Provider.translateTools(req.Tools) of package oai_resp.
OaiTranslateTools ==
    /\ respTools = <<>>
    /\ respTools' = <<oai_resp_translateTools(tools)>>
    /\ UNCHANGED <<messages, tools, toolChoice, extensions, builds, respChoice, modelVars, proxyVars>>

\* Provider.translateToolChoice(req.ToolChoice) of package oai_resp.
OaiTranslateToolChoice ==
    /\ respChoice = <<>>
    /\ respChoice' = <<oai_resp_translateToolChoice(toolChoice)>>
    /\ UNCHANGED <<messages, tools, toolChoice, extensions, builds, respTools, modelVars, proxyVars>>

\* stripProviderPrefix(model)
StripProviderPrefix ==
    /\ stripped = <<>>
    /\ stripped' = <<stripProviderPrefix(model)>>
    /\ UNCHANGED <<adapterVars, model, handlerVars, proxyVars>>

\* handleMessages serves the request with the body; the engine returns any result.
HandleMessages ==
    /\ body # <<>>
    /\ written = <<>>
    /\ \E result \in EngineResults :
          LET h == handleMessages(body[1], result)
          IN /\ engineCalls' = engineCalls \o h.calls
             /\ metrics' = metrics \o h.metrics
             /\ written' = <<h.response>>
    /\ UNCHANGED <<adapterVars, model, stripped, body, proxyVars>>

\* No model string is parsed.
NoMessages == body = <<>> /\ engineCalls = <<>> /\ metrics = <<>> /\ written = <<>>

NoModel == model = <<>> /\ stripped = <<>> /\ NoMessages

\* Authenticate handles a request with the given headers.
Authenticate ==
    /\ Len(authLog) < MaxAuthRequests
    /\ \E r \in Requests : authLog' = Append(authLog, authenticate(keys, r))
    /\ UNCHANGED <<adapterVars, modelVars, apiKeys, keys, requests, limiterVars, serverVars>>

\* RateLimiter.checkUserLimit(userID)
AfterUserCheck(u, result) ==
    /\ buckets' = WithKey(buckets, u, result.bucket)
    /\ lastCheck' = <<[user |-> u,
                       before |-> IF u \in DOMAIN buckets THEN buckets[u] ELSE Nil,
                       after |-> result.bucket,
                       ok |-> result.ok]>>

CheckUserLimit(u) ==
    /\ AfterUserCheck(u, checkUserLimit(buckets, u, userLimit))
    /\ UNCHANGED <<adapterVars, modelVars, authVars, serverVars,
                   userLimit, sinceTick, tickPending, globalVars>>

\* The state of the global window after a checkGlobalLimit call with the given result.
AfterGlobalCheck(result) ==
    /\ globalCount' = result.count
    /\ untilReset' = result.untilReset
    /\ windowPasses' = (IF result.reset THEN 0 ELSE windowPasses)
                         + (IF result.ok THEN 1 ELSE 0)
    /\ lastGlobal' = <<[before |-> globalCount, reset |-> result.reset, ok |-> result.ok]>>
    /\ UNCHANGED globalLimit

\* RateLimiter.checkGlobalLimit(), called by the goroutine of a request.
CheckGlobalLimit ==
    /\ AfterGlobalCheck(checkGlobalLimit(globalCount, untilReset, globalLimit))
    /\ UNCHANGED <<adapterVars, modelVars, authVars, serverVars,
                   userLimit, buckets, sinceTick, tickPending, lastCheck>>

\* The mux hands request i to the handler of /v1/: Log, Handle and Authenticate serve it.
Arrive(i) ==
    /\ requests[i].state = "none"
    /\ \E method \in Methods, h \in PipelineHeaders :
          requests' = [requests EXCEPT ![i] =
                          serveFrom(withMiddleware(apiHandler), 1, keys,
                                    [NewRequest EXCEPT !.method = method, !.headers = h])]
    /\ UNCHANGED <<adapterVars, modelVars, apiKeys, keys, authLog, limiterVars, serverVars>>

\* RateLimit, the global check of request i: 429 when checkGlobalLimit returns false.
RateLimitGlobal(i) ==
    LET req == requests[i]
        result == checkGlobalLimit(globalCount, untilReset, globalLimit)
        checked == [req EXCEPT !.globalChecked = TRUE, !.globalBefore = globalCount,
                               !.globalAfter = result.count]
    IN /\ req.state = "global"
       /\ AfterGlobalCheck(result)
       /\ requests' = [requests EXCEPT ![i] =
                          IF result.ok THEN [checked EXCEPT !.state = "user"]
                          ELSE [checked EXCEPT !.state = "done",
                                               !.response = RateLimitResponse]]
       /\ UNCHANGED <<adapterVars, modelVars, apiKeys, keys, authLog, serverVars,
                      userLimit, buckets, sinceTick, tickPending, lastCheck>>

\* RateLimit, the check per user of request i: 429 when checkUserLimit returns false,
\* else next.ServeHTTP.
RateLimitUser(i) ==
    LET req == requests[i]
        result == checkUserLimit(buckets, req.limit_user, userLimit)
        checked == [req EXCEPT !.userChecked = TRUE, !.bucketsBefore = buckets,
                               !.bucketsAfter = WithKey(buckets, req.limit_user,
                                                        result.bucket)]
    IN /\ req.state = "user"
       /\ AfterUserCheck(req.limit_user, result)
       /\ requests' = [requests EXCEPT ![i] =
                          IF result.ok
                          THEN serveFrom(withMiddleware(apiHandler), req.pos + 1, keys,
                                         checked)
                          ELSE [checked EXCEPT !.state = "done",
                                               !.response = RateLimitResponse]]
       /\ UNCHANGED <<adapterVars, modelVars, apiKeys, keys, authLog, serverVars,
                      userLimit, sinceTick, tickPending, globalVars>>

\* The handler of /v1/ serves request i.
ServeHTTP(i) == Arrive(i) \/ RateLimitGlobal(i) \/ RateLimitUser(i)

\* Time passes: a tick of the clock.  The ticker of cleanupLoop fires every minute; its
\* channel holds one tick, a tick that finds it full is dropped.
Tick ==
    /\ buckets' = [u \in DOMAIN buckets |->
                     [buckets[u] EXCEPT !.sinceRefill = Min({@ + 1, StaleTicks})]]
    /\ sinceTick' = (sinceTick + 1) % TickerTicks
    /\ tickPending' = (tickPending \/ (loop = "running" /\ sinceTick + 1 = TickerTicks))
    /\ untilReset' = (IF untilReset < 0 THEN untilReset ELSE untilReset - 1)
    /\ UNCHANGED <<adapterVars, modelVars, authVars, serverVars, userLimit, lastCheck,
                   globalLimit, globalCount, windowPasses, lastGlobal>>

\* cleanupLoop, case <-ticker.C: Cleanup runs.
CleanupLoopTick ==
    /\ loop = "running"
    /\ tickPending
    /\ tickPending' = FALSE
    /\ buckets' = Cleanup(buckets)
    /\ UNCHANGED <<adapterVars, modelVars, authVars, serverVars, userLimit, sinceTick,
                   lastCheck, globalVars>>

\* cleanupLoop, case <-s.done: the loop returns.
CleanupLoopDone ==
    /\ loop = "running"
    /\ closes > 0
    /\ loop' = "returned"
    /\ UNCHANGED <<adapterVars, modelVars, authVars, limiterVars,
                   shutdown, closes, httpServer, httpShutdowns, start, published,
                   pc, calls, returns>>

\* The return of a Shutdown call: the caller, the error returned, and whether the call went
\* on after the Swap.
Return(c, err, first) == [caller |-> c, err |-> err, first |-> first]

\* The error of httpServer.Shutdown(ctx) when the context ends before the server has
\* shut down.
ContextError == [error |-> "context deadline exceeded"]

\* A mutant of ShutdownSwap: the flag is read and not set.
ShutdownSwap_NoStore(c) ==
    /\ pc[c] = "idle"
    /\ calls < MaxShutdownCalls
    /\ calls' = calls + 1
    /\ UNCHANGED shutdown
    /\ IF shutdown
       THEN pc' = pc /\ returns' = Append(returns, Return(c, Nil, FALSE))
       ELSE pc' = [pc EXCEPT ![c] = "close"] /\ returns' = returns
    /\ UNCHANGED <<adapterVars, modelVars, authVars, limiterVars,
                   loop, closes, httpServer, httpShutdowns, start, published>>

\* Shutdown, s.shutdown.Swap(true): a call that reads true returns nil.
ShutdownSwap(c) ==
    /\ pc[c] = "idle"
    /\ calls < MaxShutdownCalls
    /\ calls' = calls + 1
    /\ shutdown' = TRUE
    /\ IF shutdown
       THEN pc' = pc /\ returns' = Append(returns, Return(c, Nil, FALSE))
       ELSE pc' = [pc EXCEPT ![c] = "close"] /\ returns' = returns
    /\ UNCHANGED <<adapterVars, modelVars, authVars, limiterVars,
                   loop, closes, httpServer, httpShutdowns, start, published>>

\* Shutdown, close(s.done)
ShutdownClose(c) ==
    /\ pc[c] = "close"
    /\ closes' = closes + 1
    /\ pc' = [pc EXCEPT ![c] = IF closes > 0 THEN "panicked" ELSE "http"]
    /\ UNCHANGED <<adapterVars, modelVars, authVars, limiterVars,
                   loop, shutdown, httpServer, httpShutdowns, start, published,
                   calls, returns>>

\* Shutdown, the HTTP server is shut down if it was started, and the call returns.
\* The read of s.httpServer is not synchronised with the write of Start: a read that races
\* with the write sees the server or nil.  A server that is shut down stops accepting, and
\* its Serve returns ErrServerClosed.
ShutdownHTTP(c) ==
    /\ pc[c] = "http"
    /\ \E seen \in (IF published THEN {httpServer} ELSE {Nil, httpServer}) :
          IF seen # Nil
          THEN /\ httpShutdowns' = httpShutdowns + 1
               /\ start' = (IF start = "serving" THEN "returned ErrServerClosed" ELSE start)
               /\ \E err \in {Nil, ContextError} :
                     returns' = Append(returns, Return(c, err, TRUE))
          ELSE /\ httpShutdowns' = httpShutdowns
               /\ start' = start
               /\ returns' = Append(returns, Return(c, Nil, TRUE))
    /\ pc' = [pc EXCEPT ![c] = "idle"]
    /\ UNCHANGED <<adapterVars, modelVars, authVars, limiterVars,
                   loop, shutdown, closes, httpServer, published, calls>>

\* Start, s.httpServer = &http.Server{...}
StartSetServer ==
    /\ start = "none"
    /\ httpServer' = [addr |-> "host:port"]
    /\ published' = FALSE
    /\ start' = "listen"
    /\ UNCHANGED <<adapterVars, modelVars, authVars, limiterVars,
                   loop, shutdown, closes, httpShutdowns, pc, calls, returns>>

\* Start, net.Listen: Start returns the error when it fails.
StartListen ==
    /\ start = "listen"
    /\ start' \in {"loop", "returned failed to listen"}
    /\ UNCHANGED <<adapterVars, modelVars, authVars, limiterVars,
                   loop, shutdown, closes, httpServer, httpShutdowns, published,
                   pc, calls, returns>>

\* Start, go s.cleanupLoop()
StartCleanupLoop ==
    /\ start = "loop"
    /\ loop' = "running"
    /\ start' = "serve"
    /\ UNCHANGED <<adapterVars, modelVars, authVars, limiterVars,
                   shutdown, closes, httpServer, httpShutdowns, published, pc, calls, returns>>

\* Start, s.httpServer.Serve(listener): a server that was shut down returns
\* ErrServerClosed, another one accepts requests until it is shut down.
StartServe ==
    /\ start = "serve"
    /\ start' = (IF httpShutdowns > 0 THEN "returned ErrServerClosed" ELSE "serving")
    /\ UNCHANGED <<adapterVars, modelVars, authVars, limiterVars,
                   loop, shutdown, closes, httpServer, httpShutdowns, published,
                   pc, calls, returns>>

\* Server.Start(), step by step.
Start == StartSetServer \/ StartListen \/ StartCleanupLoop \/ StartServe

\* Server.Shutdown(ctx), step by step, called by goroutine c.
Shutdown(c) == ShutdownSwap(c) \/ ShutdownClose(c) \/ ShutdownHTTP(c)

\* NewRateLimiter: the global window of a new rate limiter.
NewGlobalWindow ==
    /\ globalCount = 0
    /\ untilReset = TicksPerMinute
    /\ windowPasses = 0
    /\ lastGlobal = <<>>

\* No rate limiter is in use.
NoLimiter ==
    /\ userLimit = 0
    /\ buckets = EmptyMap
    /\ sinceTick = 0
    /\ tickPending = FALSE
    /\ lastCheck = <<>>
    /\ globalLimit = 0
    /\ NewGlobalWindow

\* NewServer: the server is built, neither started nor shut down.
NewServer ==
    /\ loop = "none"
    /\ shutdown = FALSE
    /\ closes = 0
    /\ httpServer = Nil
    /\ httpShutdowns = 0
    /\ start = "none"
    /\ published = TRUE
    /\ pc = [c \in 1..MaxCallers |-> "idle"]
    /\ calls = 0
    /\ returns = <<>>

\* The server after Start has set httpServer and started cleanupLoop and serves; the
\* goroutines that call Shutdown are synchronised with this Start.
Started ==
    /\ loop = "running"
    /\ shutdown = FALSE
    /\ closes = 0
    /\ httpServer = [addr |-> "host:port"]
    /\ httpShutdowns = 0
    /\ start = "serving"
    /\ published = TRUE
    /\ pc = [c \in 1..MaxCallers |-> "idle"]
    /\ calls = 0
    /\ returns = <<>>

\* No proxy server is built.
NoRequests == requests = [i \in 1..MaxRequests |-> NewRequest]

NoAuth == apiKeys = <<>> /\ keys = EmptyMap /\ authLog = <<>> /\ NoRequests

NoProxy == NoAuth /\ NoLimiter /\ NewServer

NoCalls == builds = <<>> /\ respTools = <<>> /\ respChoice = <<>> /\ NoModel /\ NoProxy

\* No request is translated.
NoRequest ==
    /\ messages = <<>>
    /\ tools = <<>>
    /\ toolChoice = Nil
    /\ extensions = EmptyMap
    /\ builds = <<>>
    /\ respTools = <<>>
    /\ respChoice = <<>>

\* Name lookup: requests whose histories vary in roles, ids and names.
InitLookup ==
    /\ MessagesIn(LookupBlocks, MaxMsgs, MaxBlocks)
    /\ tools = <<>>
    /\ toolChoice = Nil
    /\ extensions = EmptyMap
    /\ NoCalls

SpecLookup == InitLookup /\ [][FirstBuildRequest]_vars

\* Signature extraction: requests whose ToolUse input maps vary.
InitSig ==
    /\ MessagesIn(SigBlocks, MaxSigMsgs, MaxSigBlocks)
    /\ tools = <<>>
    /\ toolChoice = Nil
    /\ extensions = EmptyMap
    /\ NoCalls

SpecSig == InitSig /\ [][BuildRequest]_vars

\* Message translation: requests whose histories mix the kinds of blocks.
InitBlocks ==
    /\ MessagesIn(MixedBlocks, MaxMixMsgs, MaxMixBlocks)
    /\ tools = <<>>
    /\ toolChoice = Nil
    /\ extensions = EmptyMap
    /\ NoCalls

SpecBlocks == InitBlocks /\ [][FirstBuildRequest]_vars

\* Media: requests whose media blocks vary in kind and source.
InitMedia ==
    /\ MessagesIn(MediaBlocks, MaxMediaMsgs, MaxMediaBlocks)
    /\ tools = <<>>
    /\ toolChoice = Nil
    /\ extensions = EmptyMap
    /\ NoCalls

SpecMedia == InitMedia /\ [][FirstBuildRequest]_vars

\* Extensions: requests whose extension bag varies.
InitExt ==
    /\ messages = <<Message("user", <<TextBlock(<<"h", "i">>)>>)>>
    /\ tools = <<>>
    /\ toolChoice = Nil
    /\ extensions \in ExtensionBags
    /\ NoCalls

SpecExt == InitExt /\ [][FirstBuildRequest]_vars

\* Model strings: the strings over the characters of the model, the separator among them.
InitModel ==
    /\ NoRequest
    /\ NoProxy
    /\ model \in ModelStrings(MaxModelLen)
    /\ stripped = <<>>
    /\ NoMessages

SpecModel == InitModel /\ [][StripProviderPrefix]_vars

\* Messages: POST /v1/messages with any body.
InitMessages ==
    /\ NoRequest
    /\ NoProxy
    /\ model = <<>>
    /\ stripped = <<>>
    /\ \E b \in Bodies(MaxModelLen) : body = <<b>>
    /\ engineCalls = <<>>
    /\ metrics = <<>>
    /\ written = <<>>

SpecMessages == InitMessages /\ [][HandleMessages]_vars

\* Authentication: the configured keys vary, and so do the headers of the requests.
InitAuth ==
    /\ NoRequest
    /\ NoModel
    /\ apiKeys \in KeyLists(MaxKeys)
    /\ keys = NewAuthMiddleware(apiKeys)
    /\ authLog = <<>>
    /\ NoRequests
    /\ NoLimiter
    /\ NewServer

SpecAuth == InitAuth /\ [][Authenticate]_vars

\* Rate limiter: a started server whose limit per user varies.
InitLimiter ==
    /\ NoRequest
    /\ NoModel
    /\ NoAuth
    /\ Started
    /\ userLimit \in 0..MaxUserLimit
    /\ buckets = EmptyMap
    /\ sinceTick = 0
    /\ tickPending = FALSE
    /\ lastCheck = <<>>
    /\ globalLimit = 0
    /\ NewGlobalWindow

NextLimiter == (\E u \in Users : CheckUserLimit(u)) \/ Tick \/ CleanupLoopTick

SpecLimiter == InitLimiter /\ [][NextLimiter]_vars

\* Time passes, and cleanupLoop takes the tick its ticker holds.
FairSpecLimiter == SpecLimiter /\ WF_vars(Tick) /\ WF_vars(CleanupLoopTick)

\* Global limit: a started server whose global limit varies, requests that arrive at any
\* time.
InitGlobal ==
    /\ NoRequest
    /\ NoModel
    /\ NoAuth
    /\ Started
    /\ userLimit = 0
    /\ buckets = EmptyMap
    /\ sinceTick = 0
    /\ tickPending = FALSE
    /\ lastCheck = <<>>
    /\ globalLimit \in 0..MaxGlobalLimit
    /\ NewGlobalWindow

NextGlobal == CheckGlobalLimit \/ Tick

SpecGlobal == InitGlobal /\ [][NextGlobal]_vars

\* The handler chain: a started server with two keys whose limits vary, requests that are
\* served concurrently within one tick of the clock.
InitPipeline ==
    /\ NoRequest
    /\ NoModel
    /\ apiKeys = PipelineKeys
    /\ keys = NewAuthMiddleware(apiKeys)
    /\ authLog = <<>>
    /\ NoRequests
    /\ Started
    /\ userLimit \in 0..MaxUserLimit
    /\ buckets = EmptyMap
    /\ sinceTick = 0
    /\ tickPending = FALSE
    /\ lastCheck = <<>>
    /\ globalLimit \in 0..MaxGlobalLimit
    /\ NewGlobalWindow

NextPipeline == \E i \in 1..MaxRequests : ServeHTTP(i)

SpecPipeline == InitPipeline /\ [][NextPipeline]_vars

\* Shutdown: a server that was started or not, goroutines that call Shutdown.
InitShutdown ==
    /\ NoRequest
    /\ NoModel
    /\ NoAuth
    /\ NoLimiter
    /\ NewServer \/ Started

NextShutdown == (\E c \in 1..MaxCallers : Shutdown(c)) \/ CleanupLoopDone

SpecShutdown == InitShutdown /\ [][NextShutdown]_vars

\* Start and Shutdown: a new server, a goroutine that calls Start and goroutines that call
\* Shutdown, in any order.
InitStart ==
    /\ NoRequest
    /\ NoModel
    /\ NoAuth
    /\ NoLimiter
    /\ NewServer

NextStart == Start \/ (\E c \in 1..MaxCallers : Shutdown(c)) \/ CleanupLoopDone

SpecStart == InitStart /\ [][NextStart]_vars

\* Tools and tool choice: requests whose tool list and tool choice vary.
InitTools ==
    /\ messages = <<>>
    /\ tools \in ToolLists(MaxTools)
    /\ toolChoice \in ToolChoices
    /\ extensions = EmptyMap
    /\ NoCalls

NextTools == FirstBuildRequest \/ OaiTranslateTools \/ OaiTranslateToolChoice

SpecTools == InitTools /\ [][NextTools]_vars

Init ==
    \/ InitLookup \/ InitSig \/ InitBlocks \/ InitMedia \/ InitExt \/ InitModel \/ InitTools
    \/ InitAuth \/ InitLimiter \/ InitGlobal \/ InitPipeline \/ InitShutdown
    \/ InitStart \/ InitMessages

Next ==
    \/ BuildRequest \/ OaiTranslateTools \/ OaiTranslateToolChoice \/ StripProviderPrefix
    \/ Authenticate \/ NextLimiter \/ NextGlobal \/ NextPipeline \/ NextShutdown
    \/ NextStart \/ HandleMessages

Spec == Init /\ [][Next]_vars

-----------------------------------------------------------------------------
(* Reading a request and its wire request *)

\* Positions <<i, j>> of the ToolResult blocks of history h, in conversation order.
RECURSIVE resultRefsFrom(_, _, _)
resultRefsFrom(h, i, j) ==
    IF i > Len(h) THEN <<>>
    ELSE IF j > Len(h[i].content) THEN resultRefsFrom(h, i + 1, 1)
    ELSE (IF h[i].content[j].type = "tool_result" THEN << <<i, j>> >> ELSE <<>>)
         \o resultRefsFrom(h, i, j + 1)

ResultRefs(h) == resultRefsFrom(h, 1, 1)

\* Positions of the ToolUse blocks of history h.
ToolUseRefs(h) ==
    UNION {{<<i, j>> : j \in {q \in 1..Len(h[i].content) : h[i].content[q].type = "tool_use"}} :
               i \in 1..Len(h)}

BlockAt(h, r) == h[r[1]].content[r[2]]

\* Position u comes before position r in the conversation.
Before(u, r) == u[1] < r[1] \/ (u[1] = r[1] /\ u[2] < r[2])

\* The ToolUse blocks with id X in assistant messages of h.
AssistantUses(h, X) ==
    {u \in ToolUseRefs(h) : h[u[1]].role = "assistant" /\ BlockAt(h, u).id = X}

\* The contents with role "function" of a wire request, in order.
FunctionResponses(contents) == SelectSeq(contents, LAMBDA c : c.role = "function")

\* The name the k-th function content carries.
ResponseName(out, k) == out[k].parts[1].function_response.name

\* Every ToolResult block has its own function content with one function_response part.
ResultsTranslated(h, contents) ==
    /\ Len(FunctionResponses(contents)) = Len(ResultRefs(h))
    /\ \A k \in 1..Len(ResultRefs(h)) :
          /\ Len(FunctionResponses(contents)[k].parts) = 1
          /\ FunctionResponses(contents)[k].parts[1].kind = "function_response"

\* The ids of the ToolUse blocks of one message are distinct (spec, section 3: the id is
\* unique within the response that produced it).
UniqueIdsPerMessage(h) ==
    \A u \in ToolUseRefs(h), v \in ToolUseRefs(h) :
        (u[1] = v[1] /\ u # v) => BlockAt(h, u).id # BlockAt(h, v).id

\* The number of contents the messages before message i produce.
RECURSIVE contentsBefore(_, _)
contentsBefore(h, i) ==
    IF i <= 1 THEN 0
    ELSE contentsBefore(h, i - 1)
         + (IF \E j \in 1..Len(h[i - 1].content) : h[i - 1].content[j].type = "tool_result"
            THEN Cardinality({j \in 1..Len(h[i - 1].content) :
                                  h[i - 1].content[j].type = "tool_result"})
            ELSE 1)

\* The caller's messages right after the n-th buildRequest call.
MessagesAfterBuild(n) == IF n < Len(builds) THEN builds[n + 1].before ELSE messages

-----------------------------------------------------------------------------
(* Name lookup: C1, C2, C3, under SpecLookup *)

\* C1: when an assistant message holds ToolUse{id = X, name = N}, X is the id of no other
\* ToolUse of the history, and a later message holds ToolResult{tool_use_id = X}, the
\* function_response emitted for that result has name N.
C1_ResultNamesTool ==
    \A n \in 1..Len(builds) :
        LET h == builds[n].before
            out == FunctionResponses(builds[n].wire.contents)
            rs == ResultRefs(h)
        IN /\ ResultsTranslated(h, builds[n].wire.contents)
           /\ \A k \in 1..Len(rs) : \A u \in ToolUseRefs(h) :
                 ( /\ h[u[1]].role = "assistant"
                   /\ u[1] < rs[k][1]
                   /\ BlockAt(h, u).id = BlockAt(h, rs[k]).tool_use_id
                   /\ \A v \in ToolUseRefs(h) \ {u} : BlockAt(h, v).id # BlockAt(h, u).id )
                 => ResponseName(out, k) = BlockAt(h, u).name

\* The case of the spec: ToolUse{a, get_weather} in message 1, its result in message 3.
C1_Witness ==
    \E n \in 1..Len(builds) :
        LET h == builds[n].before
        IN /\ Len(h) = 3
           /\ h[1] = Message("assistant", <<ToolUseBlock("a", "get_weather", EmptyMap)>>)
           /\ h[3].content[1].type = "tool_result"
           /\ h[3].content[1].tool_use_id = "a"
           /\ ToolUseRefs(h) = {<<1, 1>>}
           /\ ResponseName(FunctionResponses(builds[n].wire.contents), 1) = "get_weather"

\* The shape the run loop appends: ToolUse blocks in assistant messages, ToolResult blocks in
\* user messages.
RunLoopShaped(h) ==
    \A i \in 1..Len(h) : \A j \in 1..Len(h[i].content) :
        /\ h[i].content[j].type = "tool_use" => h[i].role = "assistant"
        /\ h[i].content[j].type = "tool_result" => h[i].role = "user"

\* C2: when several ToolUse blocks share the id X and one of them precedes
\* ToolResult{tool_use_id = X}, the name emitted for the result is that of the nearest of them
\* that precedes the result, never that of one located after it.  Stated for the histories of
\* the run loop's shape whose messages do not repeat an id within one message.
C2_NearestPrecedingUse ==
    \A n \in 1..Len(builds) :
        LET h == builds[n].before
            out == FunctionResponses(builds[n].wire.contents)
            rs == ResultRefs(h)
        IN (RunLoopShaped(h) /\ UniqueIdsPerMessage(h)) =>
           \A k \in 1..Len(rs) :
              LET M == AssistantUses(h, BlockAt(h, rs[k]).tool_use_id)
                  P == {u \in M : Before(u, rs[k])}
                  nearest == CHOOSE u \in P : \A v \in P : v = u \/ Before(v, u)
              IN (Cardinality(M) >= 2 /\ P # {}) =>
                 ResponseName(out, k) = BlockAt(h, nearest).name

\* C3 as stated: a result whose id is the id of no ToolUse of the history is translated under
\* the id itself, and the id is the name only when no ToolUse with that id appears earlier.
C3_AsStated ==
    \A n \in 1..Len(builds) :
        LET h == builds[n].before
            out == FunctionResponses(builds[n].wire.contents)
            rs == ResultRefs(h)
        IN /\ ResultsTranslated(h, builds[n].wire.contents)
           /\ \A k \in 1..Len(rs) :
                 LET X == BlockAt(h, rs[k]).tool_use_id
                     uses == {u \in ToolUseRefs(h) : BlockAt(h, u).id = X}
                 IN /\ uses = {} => ResponseName(out, k) = X
                    /\ ResponseName(out, k) = X => \A u \in uses : ~Before(u, rs[k])

\* C3, amended: a result whose id is the id of no ToolUse of the history is translated under
\* the id itself, and the id is the name only when no ToolUse with that id appears earlier in
\* an assistant message.
C3_FallbackToID ==
    \A n \in 1..Len(builds) :
        LET h == builds[n].before
            out == FunctionResponses(builds[n].wire.contents)
            rs == ResultRefs(h)
        IN /\ ResultsTranslated(h, builds[n].wire.contents)
           /\ \A k \in 1..Len(rs) :
                 LET X == BlockAt(h, rs[k]).tool_use_id
                     uses == {u \in ToolUseRefs(h) : BlockAt(h, u).id = X}
                 IN /\ uses = {} => ResponseName(out, k) = X
                    /\ ResponseName(out, k) = X =>
                          \A u \in AssistantUses(h, X) : ~Before(u, rs[k])

\* A result whose id no ToolUse of the history carries was translated under the id.
C3_Witness ==
    \E n \in 1..Len(builds) :
        LET h == builds[n].before
            out == FunctionResponses(builds[n].wire.contents)
            rs == ResultRefs(h)
        IN /\ RunLoopShaped(h)
           /\ Len(rs) = 1
           /\ BlockAt(h, rs[1]).tool_use_id = "b"
           /\ ToolUseRefs(h) # {}
           /\ \A u \in ToolUseRefs(h) : BlockAt(h, u).id = "a"
           /\ ResponseName(out, 1) = "b"

-----------------------------------------------------------------------------
(* Signature extraction: C9, C10, under SpecSig *)

\* C9: for every ToolUse block that is translated to a part and whose input map holds a string
\* under the reserved key when buildRequest is called, the part's thought_signature is that
\* string, the args sent do not contain the reserved key, and every other key of the input is
\* in the args with its value.
C9_SignatureExtracted ==
    \A n \in 1..Len(builds) :
        LET h == builds[n].before
            cs == builds[n].wire.contents
        IN \A i \in 1..Len(h) :
              (\A j \in 1..Len(h[i].content) : h[i].content[j].type # "tool_result") =>
              LET parts == cs[contentsBefore(h, i) + 1].parts
              IN /\ Len(parts) = Len(h[i].content)
                 /\ \A j \in 1..Len(h[i].content) :
                       LET b == h[i].content[j]
                       IN ( /\ b.type = "tool_use"
                            /\ SigKey \in DOMAIN b.input
                            /\ b.input[SigKey].kind = "string" ) =>
                          /\ parts[j].kind = "function_call"
                          /\ parts[j].thought_signature = b.input[SigKey].val
                          /\ SigKey \notin DOMAIN parts[j].function_call.args
                          /\ \A key \in DOMAIN b.input \ {SigKey} :
                                /\ key \in DOMAIN parts[j].function_call.args
                                /\ parts[j].function_call.args[key] = b.input[key]

\* A ToolUse block with a signature and another key was sent: the signature in its own field,
\* the other key in the args.
C9_Witness ==
    \E n \in 1..Len(builds) :
        LET h == builds[n].before
            cs == builds[n].wire.contents
        IN /\ Len(h) = 2
           /\ h[2].role = "assistant"
           /\ Len(h[2].content) = 1
           /\ h[2].content[1].type = "tool_use"
           /\ h[2].content[1].input = [k \in {SigKey, "city"} |->
                                          IF k = SigKey THEN StringVal("sigA")
                                          ELSE StringVal("Paris")]
           /\ cs[2].parts[1].thought_signature = "sigA"
           /\ cs[2].parts[1].function_call.args = [city |-> StringVal("Paris")]

\* C10: a buildRequest call leaves the caller's messages as they were, except that the
\* reserved key may be gone from a ToolUse input map: the same messages, roles and blocks, and
\* in every ToolUse input map the same other keys with the same values.
C10_RequestUnchanged ==
    \A n \in 1..Len(builds) :
        LET before == builds[n].before
            after == MessagesAfterBuild(n)
        IN /\ Len(after) = Len(before)
           /\ \A i \in 1..Len(before) :
                 /\ after[i].role = before[i].role
                 /\ Len(after[i].content) = Len(before[i].content)
                 /\ \A j \in 1..Len(before[i].content) :
                       LET b == before[i].content[j]
                           a == after[i].content[j]
                       IN IF b.type = "tool_use"
                          THEN /\ a.type = "tool_use"
                               /\ a.id = b.id
                               /\ a.name = b.name
                               /\ DOMAIN a.input \ {SigKey} = DOMAIN b.input \ {SigKey}
                               /\ \A key \in DOMAIN b.input \ {SigKey} : a.input[key] = b.input[key]
                               /\ SigKey \in DOMAIN a.input =>
                                     /\ SigKey \in DOMAIN b.input
                                     /\ a.input[SigKey] = b.input[SigKey]
                          ELSE a = b

\* A buildRequest call removed the reserved key from an input map that holds another key, and
\* left a map whose reserved key is not a string as it was.
C10_Witness ==
    \E n \in 1..Len(builds) :
        LET before == builds[n].before
            after == MessagesAfterBuild(n)
        IN /\ Len(before) = 2
           /\ before[1].content[1].type = "tool_use"
           /\ before[2].content[1].type = "tool_use"
           /\ DOMAIN before[1].content[1].input = {SigKey, "city"}
           /\ DOMAIN after[1].content[1].input = {"city"}
           /\ before[2].content[1].input = [k \in {SigKey} |-> NumberVal("7")]
           /\ after[2].content[1].input = before[2].content[1].input

-----------------------------------------------------------------------------
(* Tools and tool choice: C4 .. C8, under SpecTools *)

FunctionTools(ts) == SelectSeq(ts, LAMBDA t : t.type = "function")

CountType(ts, ty) == Len(SelectSeq(ts, LAMBDA t : t.type = ty))

NameDesc(s) == [k \in 1..Len(s) |-> <<s[k].name, s[k].description>>]

DeclEntries(out) == SelectSeq(out, LAMBDA e : e.kind = "function_declarations")

\* The declarations of all function_declarations entries, in order.
RECURSIVE AllDecls(_)
AllDecls(entries) ==
    IF entries = <<>> THEN <<>>
    ELSE Head(entries).function_declarations \o AllDecls(Tail(entries))

OaiSupported ==
    {"function", "web_search", "code_execution", "file_search", "computer_use",
     "image_generation"}

OaiNativeType(ty) ==
    CASE ty = "function" -> "function"
      [] ty = "web_search" -> "web_search"
      [] ty = "code_execution" -> "code_interpreter"
      [] ty = "file_search" -> "file_search"
      [] ty = "computer_use" -> "computer_use_preview"
      [] ty = "image_generation" -> "image_generation"

\* C4: in both adapters every Function tool is declared exactly once, with its name and
\* description, and a tool of an unsupported variant (Gemini: FileSearch, ComputerUse,
\* TextEditor; OpenAI: TextEditor) adds no entry: the entries are those of the other tools.
C4_FunctionKeptUnsupportedOmitted ==
    /\ \A n \in 1..Len(builds) :
          LET out == builds[n].wire.tools
          IN /\ NameDesc(AllDecls(DeclEntries(out))) = NameDesc(FunctionTools(tools))
             /\ Len(out) - Len(DeclEntries(out))
                   = Len(SelectSeq(tools, LAMBDA t : t.type \notin
                            {"function", "file_search", "computer_use", "text_editor",
                             "image_generation", "custom"}))
    /\ \A n \in 1..Len(respTools) :
          LET out == respTools[n]
          IN /\ NameDesc(SelectSeq(out, LAMBDA e : e.type = "function"))
                   = NameDesc(FunctionTools(tools))
             /\ Len(out) = Len(SelectSeq(tools, LAMBDA t : t.type \notin {"text_editor", "custom"}))

\* Both adapters translated a list of a Function tool, an unsupported tool and again a
\* Function tool.
C4_Witness ==
    /\ Len(tools) = 3
    /\ tools[1].type = "function"
    /\ tools[2].type = "text_editor"
    /\ tools[3].type = "function"
    /\ tools[1] # tools[3]
    /\ Len(builds) = 1
    /\ Len(builds[1].wire.tools) = 1
    /\ Len(respTools) = 1
    /\ Len(respTools[1]) = 2

\* C5: the Gemini tools hold exactly one function_declarations entry when the list has a
\* Function tool, with all Function tools in their order, and none otherwise; and as many
\* google_search and code_execution entries as the list has WebSearch and CodeExecution tools.
C5_FunctionsBatched ==
    \A n \in 1..Len(builds) :
        LET out == builds[n].wire.tools
            fds == DeclEntries(out)
        IN /\ Len(FunctionTools(tools)) > 0 =>
                 /\ Len(fds) = 1
                 /\ NameDesc(fds[1].function_declarations) = NameDesc(FunctionTools(tools))
           /\ Len(FunctionTools(tools)) = 0 => Len(fds) = 0
           /\ Len(SelectSeq(out, LAMBDA e : e.kind = "google_search")) = CountType(tools, "web_search")
           /\ Len(SelectSeq(out, LAMBDA e : e.kind = "code_execution"))
                 = CountType(tools, "code_execution")

\* Two Function tools around a WebSearch tool were sent as one google_search entry and one
\* function_declarations entry of two declarations.
C5_Witness ==
    /\ Len(tools) = 3
    /\ tools[1].type = "function"
    /\ tools[2].type = "web_search"
    /\ tools[3].type = "function"
    /\ Len(builds) = 1
    /\ Len(builds[1].wire.tools) = 2
    /\ Len(DeclEntries(builds[1].wire.tools)) = 1
    /\ Len(DeclEntries(builds[1].wire.tools)[1].function_declarations) = 2

C7_GeminiToolChoice ==
    \A n \in 1..Len(builds) :
        toolChoice \in CanonicalChoices =>
        LET cfg == builds[n].wire.tool_config
        IN /\ cfg # Nil
           /\ toolChoice.type = "auto" =>
                 cfg.function_calling_config = [mode |-> "AUTO", allowed_function_names |-> <<>>]
           /\ toolChoice.type = "none" =>
                 cfg.function_calling_config = [mode |-> "NONE", allowed_function_names |-> <<>>]
           /\ toolChoice.type = "any" =>
                 cfg.function_calling_config = [mode |-> "ANY", allowed_function_names |-> <<>>]
           /\ toolChoice.type = "tool" =>
                 cfg.function_calling_config
                    = [mode |-> "ANY", allowed_function_names |-> <<toolChoice.name>>]

\* A tool{get_time} choice was sent as ANY restricted to get_time.
C7_Witness ==
    /\ toolChoice = ToolChoice("tool", "get_time")
    /\ Len(builds) = 1
    /\ builds[1].wire.tool_config.function_calling_config.mode = "ANY"
    /\ builds[1].wire.tool_config.function_calling_config.allowed_function_names = <<"get_time">>

\* C8: the OpenAI-Responses tool choice: nil -> nil, auto -> "auto", none -> "none",
\* any -> "required", tool{name} -> {type: function, name: name}; and no other canonical
\* choice is translated to the value the request's choice is translated to.
C8_OaiToolChoice ==
    \A n \in 1..Len(respChoice) :
        LET o == respChoice[n]
        IN /\ toolChoice = Nil => o = Nil
           /\ toolChoice \in CanonicalChoices =>
                 /\ toolChoice.type = "auto" => o = [str |-> "auto"]
                 /\ toolChoice.type = "none" => o = [str |-> "none"]
                 /\ toolChoice.type = "any" => o = [str |-> "required"]
                 /\ toolChoice.type = "tool" => o = [type |-> "function", name |-> toolChoice.name]
                 /\ \A other \in CanonicalChoices \ {toolChoice} :
                       oai_resp_translateToolChoice(other) # o

\* An any choice was sent as "required".
C8_Witness ==
    /\ toolChoice = ToolChoice("any", "")
    /\ respChoice = << [str |-> "required"] >>

-----------------------------------------------------------------------------
(* Message and block translation: C11, C12, C13 under SpecBlocks, C14 under SpecMedia *)

IsMedia(b) == b.type \in {"image", "audio", "video", "document"}

HasResult(msg) == \E j \in 1..Len(msg.content) : msg.content[j].type = "tool_result"

\* The positions, in the contents, of the contents message i of h produces.
Segment(h, i) == (contentsBefore(h, i) + 1)..contentsBefore(h, i + 1)

\* Part p carries block b: the same text, the call of the same tool, or media of the same
\* media type.
FromBlock(b, p) ==
    CASE b.type = "text" -> p.kind = "text" /\ p.text = b.text
      [] b.type = "tool_use" -> p.kind = "function_call" /\ p.function_call.name = b.name
      [] IsMedia(b) ->
            \/ p.kind = "inline_data" /\ p.inline_data.mime_type = b.source.media_type
            \/ p.kind = "file_data" /\ p.file_data.mime_type = b.source.media_type
      [] OTHER -> FALSE

\* The texts of the Text blocks among the first n blocks of content, joined in order.
RECURSIVE JoinTexts(_, _)
JoinTexts(content, n) ==
    IF n = 0 THEN <<>>
    ELSE JoinTexts(content, n - 1)
         \o (IF content[n].type = "text" THEN content[n].text ELSE <<>>)

\* The ToolResult blocks of a message, in block order.
ResultsOf(msg) == SelectSeq(msg.content, LAMBDA b : b.type = "tool_result")

\* The blocks of a message that are not ToolResult blocks, in block order.
OthersOf(msg) == SelectSeq(msg.content, LAMBDA b : b.type # "tool_result")

\* The parts of the contents at positions lo..hi that are not function responses, in order.
RECURSIVE OtherParts(_, _, _)
OtherParts(cs, lo, hi) ==
    IF lo > hi THEN <<>>
    ELSE SelectSeq(cs[lo].parts, LAMBDA p : p.kind # "function_response")
         \o OtherParts(cs, lo + 1, hi)

\* C11: the contents of message k come before those of message k+1 (message i owns the
\* positions after those of the messages before it, and the contents end with those of the
\* last message); a message without a ToolResult block yields exactly one content, with
\* role "model" for an assistant message and the message's role otherwise, whose parts are
\* the message's blocks in block order; the contents of a message with ToolResult blocks
\* have role "function".
C11_OrderAndRoles ==
    \A n \in 1..Len(builds) :
        LET h == builds[n].before
            cs == builds[n].wire.contents
        IN /\ Len(cs) = contentsBefore(h, Len(h) + 1)
           /\ \A i \in 1..Len(h) :
                 IF HasResult(h[i])
                 THEN \A k \in Segment(h, i) : cs[k].role = "function"
                 ELSE /\ Segment(h, i) = {contentsBefore(h, i) + 1}
                      /\ LET c == cs[contentsBefore(h, i) + 1]
                         IN /\ c.role = (IF h[i].role = "assistant" THEN "model" ELSE h[i].role)
                            /\ Len(c.parts) = Len(h[i].content)
                            /\ \A j \in 1..Len(h[i].content) :
                                  FromBlock(h[i].content[j], c.parts[j])

\* An assistant message with a text and a tool call, then a message with a ToolResult
\* block: the first content has role "model" and the text before the call, the function
\* content comes second.
C11_Witness ==
    \E n \in 1..Len(builds) :
        LET h == builds[n].before
            cs == builds[n].wire.contents
        IN /\ Len(h) = 2
           /\ h[1].role = "assistant"
           /\ Len(h[1].content) = 2
           /\ h[1].content[1].type = "text"
           /\ h[1].content[2].type = "tool_use"
           /\ Len(ResultsOf(h[2])) = 1
           /\ Len(cs) = 2
           /\ cs[1].role = "model"
           /\ cs[1].parts[1].kind = "text"
           /\ cs[1].parts[2].kind = "function_call"
           /\ cs[2].role = "function"

\* C12: a message with ToolResult blocks yields exactly one content per ToolResult block,
\* in block order, with role "function" and a single function_response part; the response
\* has the one key "result" with the texts of the result's Text blocks joined in order, and
\* is the empty map when the result has no text.
C12_FunctionTurns ==
    \A n \in 1..Len(builds) :
        LET h == builds[n].before
            cs == builds[n].wire.contents
        IN \A i \in 1..Len(h) :
              HasResult(h[i]) =>
                 /\ Cardinality(Segment(h, i)) = Len(ResultsOf(h[i]))
                 /\ \A k \in 1..Len(ResultsOf(h[i])) :
                       LET c == cs[contentsBefore(h, i) + k]
                           r == ResultsOf(h[i])[k]
                           text == JoinTexts(r.content, Len(r.content))
                       IN /\ c.role = "function"
                          /\ Len(c.parts) = 1
                          /\ c.parts[1].kind = "function_response"
                          /\ c.parts[1].function_response.response =
                                (IF text = <<>> THEN EmptyMap ELSE [result |-> text])

\* A message with a ToolResult of two texts around an image and a ToolResult without text:
\* two function contents, the first with the joined text, the second with the empty map.
C12_Witness ==
    \E n \in 1..Len(builds) :
        LET h == builds[n].before
            cs == builds[n].wire.contents
        IN /\ Len(h) >= 1
           /\ Len(h[1].content) = 2
           /\ h[1].content[1] =
                 ToolResultBlock("a", <<TextBlock(<<"k">>), InlineImage, TextBlock(<<"o">>)>>)
           /\ h[1].content[2] = ToolResultBlock("a", <<InlineImage>>)
           /\ cs[1].parts[1].function_response.response = [result |-> <<"k", "o">>]
           /\ cs[2].parts[1].function_response.response = EmptyMap

\* C13: every block of a message that is not a ToolResult block appears as exactly one part
\* of the contents of that message, in block order, also in a message that holds a
\* ToolResult block.
C13_NoBlockDropped ==
    \A n \in 1..Len(builds) :
        LET h == builds[n].before
            cs == builds[n].wire.contents
        IN \A i \in 1..Len(h) :
              LET bs == OthersOf(h[i])
                  ps == OtherParts(cs, contentsBefore(h, i) + 1, contentsBefore(h, i + 1))
              IN /\ Len(ps) = Len(bs)
                 /\ \A j \in 1..Len(bs) : FromBlock(bs[j], ps[j])

\* The source of a media block is a URI.
IsURISource(src) == src.type = "url"

\* The URI of a URI source: Source.URL of an image, Source.Data of the other kinds.
URIOf(b) == IF b.type = "image" THEN b.source.url ELSE b.source.data

\* C14: a media block whose source is a URI yields a file_data part with exactly that URI;
\* a media block whose source is inline base64 data yields an inline_data part with the
\* same media type and data.
C14_MediaSourceMapping ==
    \A n \in 1..Len(builds) :
        LET h == builds[n].before
            cs == builds[n].wire.contents
        IN \A i \in 1..Len(h) : \A j \in 1..Len(h[i].content) :
              LET b == h[i].content[j]
                  p == cs[i].parts[j]
              IN IsMedia(b) =>
                    IF IsURISource(b.source)
                    THEN p.kind = "file_data" /\ p.file_data.file_uri = URIOf(b)
                    ELSE /\ p.kind = "inline_data"
                         /\ p.inline_data.mime_type = b.source.media_type
                         /\ p.inline_data.data = b.source.data


-----------------------------------------------------------------------------
(* Repeated translation: C20, under SpecSig *)

\* C20: two buildRequest calls in succession on the same messages return equal wire
\* requests; a function_call part that carried a thought_signature in the first carries the
\* same thought_signature in the second.
C20_Repeatable ==
    \A n \in 1..Len(builds) :
        n + 1 <= Len(builds) => builds[n + 1].wire = builds[n].wire


-----------------------------------------------------------------------------
(* Extensions: C15, under SpecExt *)

KnownThinkingKeys == {"level", "budget", "include_thoughts"}

\* Extension bag e holds a map under gemini.thinking.
HasThinkingMap(e) ==
    /\ "gemini" \in DOMAIN e
    /\ e["gemini"].kind = "map"
    /\ "thinking" \in DOMAIN e["gemini"].val
    /\ e["gemini"].val["thinking"].kind = "map"

\* The entry gemini.thinking.k of extension bag e, Nil when there is none.
KnownEntry(e, k) ==
    IF HasThinkingMap(e) /\ k \in DOMAIN e["gemini"].val["thinking"].val
    THEN e["gemini"].val["thinking"].val[k]
    ELSE Nil

\* Two extension bags differ at most in entries other than gemini.thinking.level,
\* gemini.thinking.budget and gemini.thinking.include_thoughts.
SameKnownEntries(e1, e2) == \A k \in KnownThinkingKeys : KnownEntry(e1, k) = KnownEntry(e2, k)

\* C15, as stated: a request that differs from the request built only in extension entries
\* other than gemini.thinking.level, gemini.thinking.budget and
\* gemini.thinking.include_thoughts has the same wire request.
C15_AsStated ==
    \A n \in 1..Len(builds) : \A e2 \in ExtensionBags :
        SameKnownEntries(extensions, e2) =>
            buildRequest(builds[n].before, tools, toolChoice, e2) = builds[n].wire

\* C15, amended: a request that differs from the request built only in extension entries
\* other than gemini.thinking.level, gemini.thinking.budget and
\* gemini.thinking.include_thoughts, and that holds a map under gemini.thinking exactly when
\* the request built does, has the same wire request.
C15_UnknownIgnored ==
    \A n \in 1..Len(builds) : \A e2 \in ExtensionBags :
        (SameKnownEntries(extensions, e2) /\ HasThinkingMap(e2) = HasThinkingMap(extensions)) =>
            buildRequest(builds[n].before, tools, toolChoice, e2) = builds[n].wire

\* A request was built whose extension bag holds an entry of another provider, an unknown key
\* under "gemini", an unknown key under "thinking", and the level "high": the wire request
\* carries the level and nothing of the rest.
C15_Witness ==
    /\ builds # <<>>
    /\ "openai" \in DOMAIN extensions
    /\ HasThinkingMap(extensions)
    /\ "safety" \in DOMAIN extensions["gemini"].val
    /\ DOMAIN extensions["gemini"].val["thinking"].val = {"level", "verbosity"}
    /\ KnownEntry(extensions, "level") = StringVal("high")
    /\ builds[1].wire.generation_config.thinking_config =
          [thinking_level |-> "high", thinking_budget |-> Nil, include_thoughts |-> FALSE]


-----------------------------------------------------------------------------
(* Model strings: C16, under SpecModel *)

HasSeparator(s) == \E k \in 1..Len(s) : s[k] = "/"

\* C16: for a string with a "/", the result is the text after the first "/": the string is
\* a provider without "/", then "/", then the result; for a string without "/", the result
\* is the string.
C16_SplitOnFirstSeparator ==
    stripped # <<>> =>
        IF HasSeparator(model)
        THEN \E k \in 1..Len(model) :
                LET provider == SubSeq(model, 1, k - 1)
                IN /\ ~HasSeparator(provider)
                   /\ provider \o <<"/">> \o stripped[1] = model
        ELSE stripped[1] = model

\* A string with two separators was parsed: the second one stays in the model name.
C16_Witness ==
    /\ model = <<"g", "/", "m", "/">>
    /\ stripped = << <<"m", "/">> >>


-----------------------------------------------------------------------------
(* Authentication: C17, under SpecAuth *)

\* The API key a request carries: the Bearer token of Authorization, else X-API-Key.
CarriedKey(r) ==
    IF r.authorization.prefix = "Bearer " THEN r.authorization.rest ELSE r.x_api_key

\* The entries of config.APIKeys with key k.
ConfiguredAs(k) == {i \in 1..Len(apiKeys) : apiKeys[i].key = k}

\* C17: the next handler is called exactly for the requests that carry a non-empty key of
\* the configured set, with that key's user id and name in the context; every other
\* request gets 401 authentication_error.
C17_AuthenticationGate ==
    \A n \in 1..Len(authLog) :
        LET e == authLog[n]
            k == CarriedKey(e.request)
        IN /\ e.next <=> (k # "" /\ ConfiguredAs(k) # {})
           /\ e.next =>
                 /\ \E i \in ConfiguredAs(k) :
                       e.user_id = apiKeys[i].user_id /\ e.api_key_name = apiKeys[i].name
                 /\ e.response = Nil
           /\ ~e.next =>
                 /\ e.response # Nil
                 /\ e.response.status = 401
                 /\ e.response.type = "authentication_error"

\* The empty key is configured; a request with an empty Bearer token and a configured
\* X-API-Key was refused, a request with the key "k2" in X-API-Key was passed on as user u2.
C17_Witness ==
    /\ ConfiguredAs("") # {}
    /\ ConfiguredAs("k2") # {}
    /\ Len(authLog) = 2
    /\ authLog[1].request = Request(HeaderValue("Bearer ", ""), "k2")
    /\ ~authLog[1].next
    /\ authLog[2].request = Request(HeaderValue("", ""), "k2")
    /\ authLog[2].next
    /\ authLog[2].user_id = "u2"
    /\ authLog[2].api_key_name = "other"


-----------------------------------------------------------------------------
(* Shutdown: C19, under SpecShutdown *)

\* Every Shutdown call that was begun has returned.
AllReturned == Len(returns) = calls /\ \A c \in 1..MaxCallers : pc[c] = "idle"

\* The calls that went on after the Swap.
FirstCalls == {n \in 1..Len(returns) : returns[n].first}

\* The done channel is never closed twice, at most one call gets past the Swap, and every
\* other call returns nil.
ClosedOnce ==
    /\ closes <= 1
    /\ \A c \in 1..MaxCallers : pc[c] # "panicked"
    /\ Cardinality(FirstCalls) + Cardinality({c \in 1..MaxCallers : pc[c] # "idle"}) <= 1
    /\ \A n \in 1..Len(returns) : ~returns[n].first => returns[n].err = Nil
    /\ (AllReturned /\ calls >= 1) => (closes = 1 /\ Cardinality(FirstCalls) = 1)

\* C19, as stated: for any number of sequential or concurrent Shutdown calls, the done
\* channel is closed exactly once, exactly one call shuts the HTTP server down, and every
\* other call returns nil without effect.
C19_AsStated ==
    /\ ClosedOnce
    /\ httpShutdowns <= 1
    /\ (AllReturned /\ calls >= 1) => httpShutdowns = 1

\* C19, amended: the done channel is closed exactly once, by the one call that gets past
\* the Swap; that call shuts the HTTP server down when the server was started, and no call
\* does when it was not (httpServer is nil); every other call returns nil without effect.
C19_ShutdownOnce ==
    /\ ClosedOnce
    /\ httpShutdowns <= 1
    /\ (AllReturned /\ calls >= 1) => httpShutdowns = (IF httpServer # Nil THEN 1 ELSE 0)

\* Three calls on a started server: one returned nil while the call that closed the channel
\* was still running; all have returned, the channel was closed once and the HTTP server
\* shut down once.
C19_Witness ==
    /\ httpServer # Nil
    /\ AllReturned
    /\ calls = 3
    /\ ~returns[1].first
    /\ returns[2].first
    /\ returns[2].caller # returns[1].caller
    /\ ~returns[3].first
    /\ closes = 1
    /\ httpShutdowns = 1
    /\ loop = "returned"


-----------------------------------------------------------------------------
(* Cleanup: C18, under FairSpecLimiter *)

\* C18: with cleanupLoop running, the bucket of a user who stops sending requests is
\* eventually deleted for good: either the user's requests go on changing the bucket for
\* ever, or from some time on the user has no bucket.
C18_StaleBucketsRemoved ==
    \A u \in Users :
        \/ []<><<CheckUserLimit(u)>>_vars
        \/ <>[](u \notin DOMAIN buckets)


-----------------------------------------------------------------------------
(* The global window of the rate limiter *)

\* C21: with a global limit that is not negative, in every state the global count is
\* between 0 and the limit, and no more requests than the limit have passed
\* checkGlobalLimit since the last window reset.
C21_GlobalWindow ==
    /\ 0 <= globalCount
    /\ globalCount <= globalLimit
    /\ windowPasses <= globalLimit

\* A request was rejected by a full window, and after the window has ended a call has
\* reset the full window and passed.
C21_Witness ==
    /\ globalLimit > 1
    /\ lastGlobal # <<>>
    /\ lastGlobal[1].before = globalLimit
    /\ lastGlobal[1].reset
    /\ lastGlobal[1].ok
    /\ globalCount = 1
    /\ windowPasses = 1

-----------------------------------------------------------------------------
(* The token buckets of the rate limiter *)

\* The bucket a checkUserLimit call starts from: the bucket of the user, a full one when the
\* user has none.
StartBucket(c) ==
    IF c.before = Nil THEN [tokens |-> userLimit, limit |-> userLimit, sinceRefill |-> 0]
    ELSE c.before

\* The tokens of bucket b once the tokens of the time since its last refill are added.
TokensAfterRefill(b) ==
    LET added == (b.sinceRefill * b.limit) \div TicksPerMinute
    IN IF b.tokens + added > b.limit THEN b.limit ELSE b.tokens + added

\* C22: with a limit per user that is not negative, every bucket holds between 0 and limit
\* tokens whatever the order of checkUserLimit and Cleanup calls; checkUserLimit returns true
\* exactly when the bucket holds a token after the refill, and then takes exactly one.
C22_TokenBucket ==
    /\ \A u \in DOMAIN buckets :
          0 <= buckets[u].tokens /\ buckets[u].tokens <= buckets[u].limit
    /\ \A n \in 1..Len(lastCheck) :
          LET c == lastCheck[n]
              refilled == TokensAfterRefill(StartBucket(c))
          IN /\ c.ok <=> refilled >= 1
             /\ c.after.tokens = (IF c.ok THEN refilled - 1 ELSE refilled)
             /\ 0 <= c.after.tokens /\ c.after.tokens <= c.after.limit

\* A bucket that was empty and is older than a tick is refilled, and the call takes a token
\* of it while another user's bucket exists.
C22_Witness ==
    /\ lastCheck # <<>>
    /\ lastCheck[1].before # Nil
    /\ lastCheck[1].before.tokens = 0
    /\ lastCheck[1].before.sinceRefill > 0
    /\ lastCheck[1].ok
    /\ DOMAIN buckets = Users

-----------------------------------------------------------------------------
(* Requests the rate limiter rejects *)

\* Request req was rejected by the rate limiter.
Rejected(req) == req.state = "done" /\ req.response # Nil /\ req.response.status = 429

\* C23: a request the rate limiter rejects with 429 consumes no quota: its calls leave the
\* global count and the token count of every user as they were, and the next handler is
\* not invoked.
C23_RejectedConsumesNothing ==
    \A i \in 1..MaxRequests :
        Rejected(requests[i]) =>
            /\ requests[i].globalAfter = requests[i].globalBefore
            /\ \A u \in DOMAIN requests[i].bucketsBefore :
                  requests[i].bucketsAfter[u].tokens = requests[i].bucketsBefore[u].tokens
            /\ ~requests[i].handled
            /\ requests[i].trace[Len(requests[i].trace)] = "RateLimit"

-----------------------------------------------------------------------------
(* The order of the handlers of /v1/ *)

\* Authentication rejected request req: it carries no key, or one that is not configured.
AuthRejected(req) ==
    /\ req.state = "done"
    /\ req.method # "OPTIONS"
    /\ extractAPIKey(req.headers) \notin {k \in DOMAIN keys : k # ""}

\* The calls of checkGlobalLimit that changed the window: those that returned true.
PassedGlobal == {i \in 1..MaxRequests : requests[i].globalChecked
                                         /\ requests[i].globalAfter # requests[i].globalBefore}

\* C24: authentication runs before rate limiting and recovery is innermost: a request that
\* authentication rejects changes neither the global count nor a bucket and does not reach
\* the API handler, and the API handler runs only after authentication and both checks of
\* the rate limiter have passed.
C24_AuthBeforeRateLimit ==
    /\ \A i \in 1..MaxRequests :
          LET req == requests[i]
          IN /\ AuthRejected(req) =>
                   /\ req.response # Nil /\ req.response.status = 401
                   /\ ~req.globalChecked /\ ~req.userChecked
                   /\ ~req.handled
                   /\ req.trace[Len(req.trace)] = "Authenticate"
             /\ req.handled =>
                   /\ req.trace = <<"Log", "Handle", "Authenticate", "RateLimit", "Recover",
                                    "apiHandler">>
                   /\ extractAPIKey(req.headers) \in DOMAIN keys
                   /\ req.user_id = keys[extractAPIKey(req.headers)].user_id
                   /\ req.globalChecked /\ req.globalAfter = req.globalBefore + 1
                   /\ req.userChecked
                   /\ req.bucketsAfter[req.user_id].tokens >= 0
                   /\ req.response = Nil
    \* the rate limiter holds what the requests that passed authentication left in it
    /\ globalCount = Cardinality(PassedGlobal)
    /\ DOMAIN buckets = {requests[i].user_id : i \in {j \in 1..MaxRequests :
                                                         requests[j].userChecked}}

\* One request was rejected by authentication while another passed authentication and both
\* checks and was handled.
C24_Witness ==
    \E i, j \in 1..MaxRequests :
        /\ AuthRejected(requests[i])
        /\ requests[i].headers.x_api_key = "zz"
        /\ requests[j].handled
        /\ globalCount = 1
        /\ DOMAIN buckets = {requests[j].user_id}

-----------------------------------------------------------------------------
(* Start and Shutdown *)

\* A Shutdown call that went on after the Swap has returned.
ShutdownReturned == \E n \in 1..Len(returns) : returns[n].first

\* C25: once Shutdown has returned the server is not serving, in whatever order Start and
\* Shutdown ran: the HTTP server is stopped or never starts to accept requests.
C25_NotServingAfterShutdown == ShutdownReturned => start # "serving"

-----------------------------------------------------------------------------
(* The errors of POST /v1/messages *)

\* The body is not valid JSON, or ParseModelString rejects its model string.
InvalidRequest(b) == ~b.json \/ ParseModelString(b.model).err # Nil

UsageHeaders == {"X-Input-Tokens", "X-Output-Tokens"}

\* C26: a body that is not valid JSON or whose model string ParseModelString rejects gets
\* 400 invalid_request_error and the engine is never called; an error of the engine gets
\* 500 api_error, and neither a success metric nor a usage header is recorded.
C26_MessagesErrors ==
    written # <<>> =>
        /\ InvalidRequest(body[1]) =>
              /\ written[1].status = 400
              /\ written[1].type = "invalid_request_error"
              /\ engineCalls = <<>>
        /\ (engineCalls # <<>> /\ engineCalls[1].result.err # Nil) =>
              /\ written[1].status = 500
              /\ written[1].type = "api_error"
              /\ \A n \in 1..Len(metrics) : metrics[n].metric = "error"
              /\ written[1].headers \cap UsageHeaders = {}
        /\ Len(engineCalls) <= 1

\* A model string with a separator whose provider segment is not recognised was answered
\* with 400.
C26_Witness ==
    /\ written # <<>>
    /\ body[1].json
    /\ body[1].model = <<"m", "/", "g">>
    /\ written[1].status = 400
    /\ engineCalls = <<>>

====
